---- MODULE Spec2Model ----
(***************************************************************************)
(* Model of the pizzago backend (src/unnamed/part_001, the Express app):   *)
(* the session store (Redis), the relational store (Prisma: pizzas and     *)
(* orders), and the cart / order route handlers.  Every handler is cut at  *)
(* its awaits: one action is one store call together with the synchronous  *)
(* code that follows it up to the next store call.                         *)
(***************************************************************************)
EXTENDS Integers, Sequences, FiniteSets, TLC

\* ---------------------------------------------------------------- bounds
MaxOrders == 3       \* number of orders that may be committed
MaxRequests == 3     \* requests served one after the other (Spec)
MaxRaceRequests == 2 \* requests served two at a time (SpecRace)
MaxOrderRequests == 7 \* requests of the order history (SpecOrders)
MaxChanges == 1      \* number of changes the catalog's owner may make
MaxFaultRequests == 4 \* requests served while the session store may fail (SpecFault)
MaxAuthRequests == 3 \* requests of the account routes (SpecAuth)
MaxResendRequests == 3 \* requests of the verification emails (SpecResend)
MaxTicks == 1        \* number of times the time is advanced
MaxTokens == 3       \* number of tokens getSecureToken may return
MaxRegisterRequests == 3 \* requests of the registration (SpecRegister)
MaxLogoutRequests == 3 \* requests of the cart and the logout (SpecLogout)
MaxExpiryRequests == 3 \* requests served while the records expire (SpecExpiry)
MaxElapses == 3      \* number of times the time is advanced in SpecExpiry
MaxCartRequests == 3 \* requests of the cart's items (SpecCart)
MaxListRequests == 2 \* requests to GET /pizzas (SpecPizzas)
MaxTagChanges == 2   \* changes of the catalog and its tags in SpecPizzas
MaxCommitRequests == 3 \* requests of the cart and its commit (SpecCommit)

\* ------------------------------------------------------- input universes
Reqs == {1, 2}                       \* concurrently served requests
GenIds == {"g1", "g2"}               \* values generateSessionId can return
Pizzas == {1, 2}                     \* ids of the pizzas of the catalog
Prices == {1, 2}                     \* catalog prices
Quantities == {-1, 0, 1}          \* body.quantity after parseInt
CartQuantities == {0, 1, 2}          \* body.quantity in SpecCart
TagKeys == {"hot", "veg"}            \* Tag.key
QueryTags == {<<>>, <<"hot">>, <<"veg">>, <<"hot", "veg">>} \* req.query.tags
QueryLimits == {-1, 0, 1, 2, 101}    \* parseInt(req.query.limit), 0 for NaN
QueryOffsets == {0, 1, 2}            \* parseInt of page and of offset
NoCookie == ""                       \* request without a session cookie
NoUser == 0                          \* userId: null

Emails == {"a@x.io", "b@x.io"}       \* body.email
Passwords == {"password1", "password2"} \* body.password
RegisterEmails == {"a@x.io", "A@x.io", "a.x.io"} \* also a malformed one
RegisterPasswords == {"password1", "pass"}       \* also a short one
NoEmail == ""                        \* undefined
NoPassword == ""
NoToken == ""
ClearedCookie == "cleared"           \* res.clearCookie('session')

SESSION_PREFIX == "pizzago_session:"
EMAIL_RATE_LIMIT == 60               \* seconds
TOKEN_LIFETIME == 24 * 60 * 60       \* 24 * 60 * 60 * 1000 ms, in seconds
SESSION_LIFETIME == 60 * 60 * 24 * 3 \* seconds

VARIABLES
    redis,      \* session store: key -> stored session record
    catalog,    \* prisma.pizza: id -> price, for the pizzas that exist
    orders,     \* prisma.order with its items, in order of creation
    issued,     \* session ids generated so far
    clock,      \* the server clock read by new Date()
    changes,    \* number of changes made to the catalog
    started,    \* number of requests started
    pc,         \* per request: the await the handler is suspended at
    req,        \* per request: route and inputs
    session,    \* per request: req.session, the deserialized copy
    orderData,  \* per request: the data handed to prisma.order.create
    res,        \* per request: the response
    users,      \* prisma.user, in order of creation
    verifications, \* prisma.emailVerification: the rows ever inserted
    markers,    \* session store: email -> expiry of its rate limit marker
    outbox,     \* the emails handed to sendEmail
    dateNow,        \* Date.now(), in seconds
    ticks,      \* number of times the time has been advanced
    tokens,     \* number of tokens getSecureToken has returned
    pending,    \* store calls issued and not awaited, not yet executed
    areq,       \* per request: email, password and token of an auth route
    local,      \* per request: the rows an auth handler has read
    expiry,     \* session store: key -> the time its record expires at
    pizzaTags,  \* the relation _PizzaTags: pizza id -> the keys of its tags
    listing     \* the request to GET /pizzas being served, and its response

authVars == <<users, verifications, markers, outbox, dateNow, ticks, tokens,
              pending, areq, local>>

vars == <<redis, catalog, orders, issued, clock, changes, started, pc, req, session,
          orderData, res, users, verifications, markers, outbox, dateNow, ticks,
          tokens, pending, areq, local, expiry, pizzaTags, listing>>

listVars == <<pizzaTags, listing>>

\* ------------------------------------------------------------ data shapes
EmptyCart == [items |-> <<>>, total |-> 0]

sessionIdToRedisKey(sessionId) == <<SESSION_PREFIX, sessionId>>

\* priceAt is a history field, parallel to cart.items: the unit price that
\* was in force at the last mutation of the item.  No handler reads it.
constructSessionData(sessionId) ==
    [id |-> sessionId, cart |-> EmptyCart, userId |-> NoUser,
     priceAt |-> <<>>]

NoSession == constructSessionData(NoCookie)
NoOrderData == [valid |-> FALSE, sessionId |-> NoCookie, userId |-> NoUser,
                items |-> <<>>, total |-> 0, createdAt |-> 0]
NoOrder == [id |-> 0, sessionId |-> NoCookie, userId |-> NoUser,
            status |-> "none", total |-> 0, createdAt |-> 0, items |-> <<>>]
NoRes == [status |-> 0, cart |-> EmptyCart, orders |-> <<>>,
          order |-> NoOrder, cookie |-> NoCookie]
NoReq == [kind |-> "none", sessionId |-> NoCookie, pizzaId |-> 0,
          quantity |-> 0, orderId |-> 0]

\* GET /pizzas: the query as parsed (0 for a number absent or not a
\* number), the rows of the raw query, and the response
NoListing == [stage |-> "idle", tags |-> <<>>, limit |-> 0, page |-> 0,
              offset |-> 0, ids |-> <<>>, status |-> 0, total |-> 0,
              resLimit |-> 0, resOffset |-> 0, results |-> <<>>]

NoAreq == [email |-> NoEmail, password |-> NoPassword, token |-> NoToken]
NoLocal == [user |-> NoUser, verification |-> NoUser, limited |-> FALSE]

\* redisClient.set(key, value, 'EX', SESSION_LIFETIME)
redisSet(store, key, value) ==
    [k \in DOMAIN store \cup {key} |-> IF k = key THEN value ELSE store[k]]

\* A variant whose expiry is set by the first write only and kept by the
\* later ones: C26 must tell it from expireAt.
expireAtFirst(all, key, time) ==
    [k \in DOMAIN all \cup {key} |->
        IF k \in DOMAIN all THEN all[k] ELSE time + SESSION_LIFETIME]

\* the 'EX', SESSION_LIFETIME of redisClient.set(key, value, 'EX',
\* SESSION_LIFETIME): the record expires SESSION_LIFETIME after this write
expireAt(all, key, time) ==
    [k \in DOMAIN all \cup {key} |->
        IF k = key THEN time + SESSION_LIFETIME ELSE all[k]]

\* -------------------------------------------------------- pure helpers
RECURSIVE SumSeq(_)
SumSeq(s) == IF s = <<>> THEN 0 ELSE Head(s) + SumSeq(Tail(s))

\* A variant that finds no entry: C33 must tell it from findIndex.
findNothing(items, pizzaId) == 0

\* items.findIndex(item => item.pizzaId === pizzaId), 1-based, 0 for -1
findIndex(items, pizzaId) ==
    IF \E i \in 1..Len(items) : items[i].pizzaId = pizzaId
    THEN CHOOSE i \in 1..Len(items) :
            /\ items[i].pizzaId = pizzaId
            /\ \A j \in 1..(i-1) : items[j].pizzaId # pizzaId
    ELSE 0

\* array.splice(index, 1)
splice(s, index) ==
    [i \in 1..(Len(s) - 1) |-> IF i < index THEN s[i] ELSE s[i + 1]]

\* orderBy: { createdAt: 'desc' }: the orders of s, latest createdAt first
RECURSIVE orderByCreatedAtDesc(_)
orderByCreatedAtDesc(s) ==
    IF s = <<>> THEN <<>>
    ELSE LET m == CHOOSE i \in 1..Len(s) :
                      \A j \in 1..Len(s) :
                          \/ s[j].createdAt < s[i].createdAt
                          \/ (s[j].createdAt = s[i].createdAt /\ i <= j)
         IN  <<s[m]>> \o orderByCreatedAtDesc(splice(s, m))

\* transformCartInfo(info)
transformCartInfo(info) == info

\* A variant of the serialization that loses the cart: C25 must tell it
\* from JsonRoundTrip.
JsonDropsCart(sessionData) ==
    [id |-> sessionData.id, cart |-> EmptyCart,
     userId |-> sessionData.userId, priceAt |-> <<>>]

\* JSON.parse(JSON.stringify(session)) on the fields modelled here: strings,
\* integers, null and arrays of them come back as they were written.
JsonRoundTrip(sessionData) ==
    [id |-> sessionData.id, cart |-> sessionData.cart,
     userId |-> sessionData.userId, priceAt |-> sessionData.priceAt]

\* ------------------------------------------------------------------ Init
Init ==
    /\ redis = << >>
    /\ catalog = [p \in Pizzas |-> 1]
    /\ orders = <<>>
    /\ issued = {}
    /\ clock = 1
    /\ changes = 0
    /\ started = 0
    /\ pc = [r \in Reqs |-> "idle"]
    /\ req = [r \in Reqs |-> NoReq]
    /\ session = [r \in Reqs |-> NoSession]
    /\ orderData = [r \in Reqs |-> NoOrderData]
    /\ res = [r \in Reqs |-> NoRes]
    /\ users = <<>>
    /\ verifications = <<>>
    /\ markers = << >>
    /\ outbox = <<>>
    /\ dateNow = 0
    /\ ticks = 0
    /\ tokens = 0
    /\ pending = {}
    /\ areq = [r \in Reqs |-> NoAreq]
    /\ local = [r \in Reqs |-> NoLocal]
    /\ expiry = << >>
    /\ pizzaTags = [p \in Pizzas |-> {}]
    /\ listing = NoListing

InFlight(r) == pc[r] \notin {"idle", "done"}

\* ---------------------------------------------------- the catalog's owner
\* The catalog is maintained outside this service: a price may change and a
\* pizza may be deleted at any time.  order_item.pizzaId references Pizza,
\* so a pizza that an order line refers to cannot be deleted.
SetPrice(p, v) ==
    /\ p \in DOMAIN catalog
    /\ catalog[p] # v
    /\ changes < MaxChanges
    /\ changes' = changes + 1
    /\ catalog' = [catalog EXCEPT ![p] = v]
    /\ UNCHANGED <<redis, orders, issued, clock, started, pc, req, session,
                   orderData, res>>
    /\ UNCHANGED authVars
    /\ UNCHANGED expiry
    /\ UNCHANGED listVars

DeletePizza(p) ==
    /\ p \in DOMAIN catalog
    /\ \A i \in 1..Len(orders) : \A j \in 1..Len(orders[i].items) :
           orders[i].items[j].pizzaId # p
    /\ changes < MaxChanges
    /\ changes' = changes + 1
    /\ catalog' = [q \in DOMAIN catalog \ {p} |-> catalog[q]]
    /\ UNCHANGED <<redis, orders, issued, clock, started, pc, req, session,
                   orderData, res>>
    /\ UNCHANGED authVars
    /\ UNCHANGED expiry
    /\ UNCHANGED listVars

\* ------------------------------------------------------ request arrival
\* generateSessionId(): an id no one holds; the ids are interchangeable,
\* so the first one not yet issued stands for any of them.
generateSessionId ==
    IF issued = GenIds THEN NoCookie
    ELSE IF "g1" \notin issued THEN "g1" ELSE "g2"

\* The synchronous head of getSessionForRequest: a request without a cookie
\* gets a generated id and the set-cookie; then the store is asked.
\* The requests in flight are interchangeable, so a new one takes the lowest
\* free place; the responses of the finished ones are forgotten when it
\* arrives.
Arrive(r, kind, cookie, pizzaId, quantity, orderId) ==
    /\ ~InFlight(r)
    /\ \A q \in Reqs : q < r => InFlight(q)
    /\ kind = "postOrders" =>
          Len(orders) + Cardinality({q \in Reqs : InFlight(q)
                                       /\ req[q].kind = "postOrders"}) < MaxOrders
    /\ \E sessionId \in GenIds :
          /\ IF cookie = NoCookie THEN sessionId = generateSessionId
                                  ELSE sessionId = cookie
          /\ issued' = issued \cup {sessionId}
          /\ req' = [q \in Reqs |->
                       IF q = r
                       THEN [kind |-> kind, sessionId |-> sessionId,
                             pizzaId |-> pizzaId, quantity |-> quantity,
                             orderId |-> orderId]
                       ELSE IF InFlight(q) THEN req[q] ELSE NoReq]
          /\ res' = [q \in Reqs |->
                       IF q = r
                       THEN [NoRes EXCEPT !.cookie =
                               IF cookie = NoCookie THEN sessionId
                                                    ELSE NoCookie]
                       ELSE IF InFlight(q) THEN res[q] ELSE NoRes]
    /\ started' = started + 1
    /\ pc' = [q \in Reqs |->
                IF q = r THEN "getExistingSession"
                ELSE IF InFlight(q) THEN pc[q] ELSE "idle"]
    /\ UNCHANGED <<redis, catalog, orders, clock, changes, session,
                   orderData>>
    /\ UNCHANGED authVars
    /\ UNCHANGED expiry
    /\ UNCHANGED listVars

\* ------------------------------------------------------------ responses
\* res.status(status).json(body): the handler returns, its copies are gone.
Reply(r, response) ==
    /\ res' = [res EXCEPT ![r] = [response EXCEPT !.cookie = res[r].cookie]]
    /\ pc' = [pc EXCEPT ![r] = "done"]
    /\ session' = [session EXCEPT ![r] = NoSession]
    /\ orderData' = [orderData EXCEPT ![r] = NoOrderData]

Status(status) == [NoRes EXCEPT !.status = status]
CartJson(cart) == [NoRes EXCEPT !.status = 200, !.cart = transformCartInfo(cart)]

\* The handler goes on to its next store call with req.session = s.
Await(r, s, next) ==
    /\ pc' = [pc EXCEPT ![r] = next]
    /\ session' = [session EXCEPT ![r] = s]
    /\ UNCHANGED <<res, orderData>>

\* A variant that empties the items and keeps the running total: C7 must
\* tell it from clearCart.
clearItemsOnly(s) == [s EXCEPT !.cart.items = <<>>, !.priceAt = <<>>]

\* A variant that resets the total and keeps the items: C32 must tell it
\* from clearCart.
clearTotalOnly(s) == [s EXCEPT !.cart.total = 0]

\* req.session.cart.items = []; req.session.cart.total = 0
clearCart(s) == [s EXCEPT !.cart = EmptyCart, !.priceAt = <<>>]

\* A variant without the check of the empty cart: C6 must tell it from
\* cartIsEmpty.
cartNeverEmpty(s) == FALSE

\* req.session.cart.items.length === 0
cartIsEmpty(s) == Len(s.cart.items) = 0

\* ------------------------------------------------- validation of a body
\* String(value): the characters of the strings a body may carry
String(value) ==
    CASE value = "a@x.io" -> <<"a", "@", "x", ".", "i", "o">>
      [] value = "b@x.io" -> <<"b", "@", "x", ".", "i", "o">>
      [] value = "A@x.io" -> <<"A", "@", "x", ".", "i", "o">>
      [] value = "a.x.io" -> <<"a", ".", "x", ".", "i", "o">>
      [] value = "password1" -> <<"p", "a", "s", "s", "w", "o", "r", "d", "1">>
      [] value = "password2" -> <<"p", "a", "s", "s", "w", "o", "r", "d", "2">>
      [] value = "pass" -> <<"p", "a", "s", "s">>
      [] value = "" -> <<>>

\* String.prototype.toLowerCase on the letters that occur
toLowerCase(chars) ==
    [i \in 1..Len(chars) |->
        CASE chars[i] = "A" -> "a"
          [] chars[i] = "B" -> "b"
          [] OTHER -> chars[i]]

\* /^[^\s@]+@[^\s@]+\.[^\s@]+$/.test(chars): an @ after at least one
\* character, a dot at least one character later and before the last one,
\* and neither a space nor another @ anywhere
emailRegexTest(chars) ==
    \E i, j \in 1..Len(chars) :
       /\ 1 < i /\ i + 1 < j /\ j < Len(chars)
       /\ chars[i] = "@" /\ chars[j] = "."
       /\ \A k \in 1..Len(chars) \ {i} : chars[k] \notin {" ", "@"}

\* validateEmail(email)
validateEmail(email) == emailRegexTest(toLowerCase(String(email)))

\* validatePassword(password): password && password.length >= 8
validatePassword(password) ==
    password # NoPassword /\ Len(String(password)) >= 8

\* lines 494-506 of POST /auth/register: the body is complete and valid
registerBodyValid(body) ==
    /\ body.email # NoEmail /\ body.password # NoPassword
    /\ validateEmail(body.email)
    /\ validatePassword(body.password)

\* --------------------------------- the handlers, from next() to an await
\* What each route handler does between the session being attached to the
\* request and its first store call.
Handle(r, s) ==
    CASE req[r].kind = "getCart" ->
            Reply(r, CartJson(s.cart))
      [] req[r].kind = "postCart" ->
            \* !req.body.quantity, !quantity: 0 is refused, a negative is not
            IF req[r].pizzaId = 0 \/ req[r].quantity = 0
            THEN Reply(r, Status(400))
            ELSE Await(r, s, "cartFindUnique")
      [] req[r].kind = "deleteCartPizza" ->
            IF findIndex(s.cart.items, req[r].pizzaId) = 0
            THEN Reply(r, Status(404))
            ELSE Await(r, s, "cartFindUnique")
      [] req[r].kind = "deleteCart" ->
            Await(r, clearCart(s), "redisSet")
      [] req[r].kind = "postOrders" ->
            IF cartIsEmpty(s)
            THEN Reply(r, Status(400))
            ELSE Await(r, s, "pizzaFindMany")
      [] req[r].kind = "getOrders" ->
            Await(r, s, "orderFindMany")
      [] req[r].kind = "getOrder" ->
            Await(r, s, "orderFindUnique")
      [] req[r].kind = "register" ->
            IF registerBodyValid(areq[r])
            THEN Await(r, s, "registerFindUnique")
            ELSE Reply(r, Status(400))
      [] req[r].kind = "resendVerification" ->
            Await(r, s, "resendFindUnique")

\* ------------------------------------------------------ Session Manager
\* getOrCreateSession -> getExistingSession: redisClient.get and JSON.parse
getExistingSession(r) ==
    /\ pc[r] = "getExistingSession"
    /\ LET key == sessionIdToRedisKey(req[r].sessionId) IN
         IF key \in DOMAIN redis
         THEN Handle(r, JsonRoundTrip(redis[key]))
         ELSE /\ pc' = [pc EXCEPT ![r] = "createSession"]
              /\ UNCHANGED <<session, orderData, res>>
    /\ UNCHANGED <<redis, catalog, orders, issued, clock, changes, started,
                   req>>
    /\ UNCHANGED authVars
    /\ UNCHANGED expiry
    /\ UNCHANGED listVars

\* getOrCreateSession -> createSession: a fresh record under the request's id
createSession(r) ==
    /\ pc[r] = "createSession"
    /\ LET sessionData == constructSessionData(req[r].sessionId) IN
         /\ redis' = redisSet(redis, sessionIdToRedisKey(req[r].sessionId),
                              JsonRoundTrip(sessionData))
         /\ Handle(r, sessionData)
    /\ UNCHANGED <<catalog, orders, issued, clock, changes, started, req>>
    /\ UNCHANGED authVars
    /\ expiry' = expireAt(expiry, sessionIdToRedisKey(req[r].sessionId), dateNow)
    /\ UNCHANGED listVars

\* ---------------------------------------------------------- Cart routes
\* A variant that replaces the quantity of an item already in the cart and
\* its contribution to the total: C27 must tell it from addToCart.
setInCart(s, pizzaId, quantity, price) ==
    LET items == s.cart.items
        i == findIndex(items, pizzaId)
    IN  IF i = 0
        THEN [s EXCEPT !.cart = [items |-> Append(items, [pizzaId |-> pizzaId,
                                                         quantity |-> quantity]),
                                 total |-> s.cart.total + price * quantity],
                       !.priceAt = Append(s.priceAt, price)]
        ELSE [s EXCEPT !.cart = [items |-> [items EXCEPT ![i].quantity = quantity],
                                 total |-> s.cart.total
                                           - price * items[i].quantity
                                           + price * quantity],
                       !.priceAt = [s.priceAt EXCEPT ![i] = price]]

\* POST /cart, lines 286-293: additive update of the cart
addToCart(s, pizzaId, quantity, price) ==
    LET items == s.cart.items
        i == findIndex(items, pizzaId)
        newItems == IF i # 0
                    THEN [items EXCEPT ![i].quantity = @ + quantity]
                    ELSE Append(items, [pizzaId |-> pizzaId,
                                        quantity |-> quantity])
        newAt == IF i # 0 THEN [s.priceAt EXCEPT ![i] = price]
                          ELSE Append(s.priceAt, price)
    IN  [s EXCEPT !.cart = [items |-> newItems,
                            total |-> s.cart.total + price * quantity],
                  !.priceAt = newAt]

\* A variant that deletes the first entry of the cart, whichever pizza was
\* asked for: C30 must tell it from removeFromCart.
removeFirst(s, pizzaId, price) ==
    [s EXCEPT !.cart = [items |-> splice(s.cart.items, 1),
                        total |-> s.cart.total
                                  - price * s.cart.items[1].quantity],
              !.priceAt = splice(s.priceAt, 1)]

\* DELETE /cart/:pizzaId, lines 318-320
removeFromCart(s, pizzaId, price) ==
    LET items == s.cart.items
        i == findIndex(items, pizzaId)
    IN  [s EXCEPT !.cart = [items |-> splice(items, i),
                            total |-> s.cart.total - price * items[i].quantity],
                  !.priceAt = splice(s.priceAt, i)]

\* A variant of DELETE /cart/:pizzaId that drops the entry of a pizza the
\* catalog no longer has, at no price: C31 must tell it from cartFindUnique.
cartFindUniqueDrops(r) ==
    /\ pc[r] = "cartFindUnique"
    /\ IF req[r].pizzaId \notin DOMAIN catalog
       THEN IF req[r].kind = "postCart"
            THEN Reply(r, Status(404))
            ELSE Await(r, removeFromCart(session[r], req[r].pizzaId, 0),
                       "redisSet")
       ELSE LET price == catalog[req[r].pizzaId] IN
            IF req[r].kind = "postCart"
            THEN Await(r, addToCart(session[r], req[r].pizzaId,
                                    req[r].quantity, price), "redisSet")
            ELSE Await(r, removeFromCart(session[r], req[r].pizzaId, price),
                       "redisSet")
    /\ UNCHANGED <<redis, catalog, orders, issued, clock, changes, started,
                   req>>
    /\ UNCHANGED authVars
    /\ UNCHANGED expiry
    /\ UNCHANGED listVars

\* prisma.pizza.findUnique of POST /cart and DELETE /cart/:pizzaId, and the
\* mutation of req.session.cart that follows it
cartFindUnique(r) ==
    /\ pc[r] = "cartFindUnique"
    /\ IF req[r].pizzaId \notin DOMAIN catalog
       THEN Reply(r, Status(404))
       ELSE LET price == catalog[req[r].pizzaId] IN
            IF req[r].kind = "postCart"
            THEN Await(r, addToCart(session[r], req[r].pizzaId,
                                    req[r].quantity, price), "redisSet")
            ELSE Await(r, removeFromCart(session[r], req[r].pizzaId, price),
                       "redisSet")
    /\ UNCHANGED <<redis, catalog, orders, issued, clock, changes, started,
                   req>>
    /\ UNCHANGED authVars
    /\ UNCHANGED expiry
    /\ UNCHANGED listVars

\* A variant in which a record already stored is kept (the first writer
\* wins): C10 must tell it from StoredValue.
KeptValue(store, key, sessionData) ==
    IF key \in DOMAIN store THEN store[key] ELSE JsonRoundTrip(sessionData)

\* What the write of the session puts under the key: the whole record.
StoredValue(store, key, sessionData) == JsonRoundTrip(sessionData)

\* A variant that writes the session while the order write is still
\* awaited: C12 must tell it from redisSetSession.
redisSetEager(r) ==
    /\ pc[r] \in {"orderCreate", "redisSet"}
    /\ LET s == IF pc[r] = "orderCreate" THEN clearCart(session[r])
                                         ELSE session[r]
       IN  redis' = redisSet(redis, sessionIdToRedisKey(s.id), JsonRoundTrip(s))
    /\ pc' = [pc EXCEPT ![r] = "respond"]
    /\ UNCHANGED <<catalog, orders, issued, clock, changes, started, req, session,
                   orderData, res>>
    /\ UNCHANGED authVars
    /\ expiry' = expireAt(expiry, sessionIdToRedisKey(session[r].id), dateNow)
    /\ UNCHANGED listVars

\* redisClient.set(sessionIdToRedisKey(req.session.id), JSON.stringify(
\* req.session), 'EX', SESSION_LIFETIME) of the four mutating handlers
redisSetSession(r) ==
    /\ pc[r] = "redisSet"
    /\ LET key == sessionIdToRedisKey(session[r].id) IN
         redis' = redisSet(redis, key, StoredValue(redis, key, session[r]))
    /\ pc' = [pc EXCEPT ![r] = "respond"]
    /\ UNCHANGED <<catalog, orders, issued, clock, changes, started, req, session,
                   orderData, res>>
    /\ UNCHANGED authVars
    /\ expiry' = expireAt(expiry, sessionIdToRedisKey(session[r].id), dateNow)
    /\ UNCHANGED listVars

\* --------------------------------------------------------- Order routes
\* A variant whose totalPrice is the unit price, whatever the quantity: C4
\* must tell it from cartItems.
cartItemsUnit(items, pizzas) ==
    [i \in 1..Len(items) |->
        [pizzaId |-> items[i].pizzaId,
         quantity |-> items[i].quantity,
         unitPrice |-> pizzas[items[i].pizzaId],
         totalPrice |-> pizzas[items[i].pizzaId]]]

\* cart_items, lines 352-364: one line per cart item, priced from `pizzas`
cartItems(items, pizzas) ==
    [i \in 1..Len(items) |->
        [pizzaId |-> items[i].pizzaId,
         quantity |-> items[i].quantity,
         unitPrice |-> pizzas[items[i].pizzaId],
         totalPrice |-> items[i].quantity * pizzas[items[i].pizzaId]]]

\* total: of orderData, line 377
orderTotal(s, lines) == s.cart.total

\* orderData, lines 367-382
buildOrderData(s, lines, now) ==
    [valid |-> TRUE, sessionId |-> s.id,
     userId |-> IF s.userId # NoUser THEN s.userId ELSE NoUser,
     items |-> lines, total |-> orderTotal(s, lines), createdAt |-> now]

\* prisma.pizza.findMany of POST /orders, then lines 352-382.  A cart item
\* whose pizza is missing answers 404 from inside the map callback, which
\* does not leave the handler: with one such item the handler goes on to
\* prisma.order.create with a line that has no fields; with two, the second
\* answer throws (headers already sent) and the handler dies there.
pizzaFindMany(r) ==
    /\ pc[r] = "pizzaFindMany"
    /\ LET items == session[r].cart.items
           missing == {i \in 1..Len(items) :
                          items[i].pizzaId \notin DOMAIN catalog}
       IN  IF missing = {}
           THEN /\ orderData' = [orderData EXCEPT ![r] =
                      buildOrderData(session[r], cartItems(items, catalog),
                                     clock)]
                /\ pc' = [pc EXCEPT ![r] = "orderCreate"]
                /\ UNCHANGED <<res, session>>
           ELSE IF Cardinality(missing) = 1
           THEN /\ res' = [res EXCEPT ![r].status = 404]
                /\ pc' = [pc EXCEPT ![r] = "orderCreate"]
                /\ UNCHANGED <<orderData, session>>
           ELSE Reply(r, Status(404))
    /\ clock' = clock + 1
    /\ UNCHANGED <<redis, catalog, orders, issued, changes, started, req>>
    /\ UNCHANGED authVars
    /\ UNCHANGED expiry
    /\ UNCHANGED listVars

\* The row prisma.order.create inserts: id autoincrement, status default
newOrder(data, id) ==
    [id |-> id, sessionId |-> data.sessionId, userId |-> data.userId,
     status |-> "pending", total |-> data.total,
     createdAt |-> data.createdAt, items |-> data.items]

\* items of the JSON bodies of POST /orders and GET /orders
itemsJson(lines) ==
    [i \in 1..Len(lines) |-> [pizzaId |-> lines[i].pizzaId,
                              quantity |-> lines[i].quantity]]

\* A variant of the store that accepts whatever it is handed: C5 must tell
\* it from accepted.
acceptedAlways(data, pizzas) == TRUE

\* What the relational store accepts: order_item's columns are NOT NULL, so
\* a line that has no fields is refused, and order_item.pizzaId references
\* Pizza, so a line whose pizza has been deleted meanwhile is refused.
accepted(data, pizzas) ==
    /\ data.valid
    /\ \A i \in 1..Len(data.items) : data.items[i].pizzaId \in DOMAIN pizzas

\* prisma.order.create, then lines 388-390.  The nested create is one
\* statement: when it is refused nothing is written, and the rejection
\* ends the handler.
orderCreate(r) ==
    /\ pc[r] = "orderCreate"
    /\ IF accepted(orderData[r], catalog)
       THEN LET order == newOrder(orderData[r], Len(orders) + 1) IN
            /\ orders' = Append(orders, order)
            /\ res' = [res EXCEPT ![r].order =
                         [order EXCEPT !.items = itemsJson(order.items)]]
            /\ session' = [session EXCEPT ![r] = clearCart(session[r])]
            /\ pc' = [pc EXCEPT ![r] = "redisSet"]
            /\ UNCHANGED orderData
       ELSE /\ pc' = [pc EXCEPT ![r] = "done"]
            /\ session' = [session EXCEPT ![r] = NoSession]
            /\ orderData' = [orderData EXCEPT ![r] = NoOrderData]
            /\ UNCHANGED <<orders, res>>
    /\ UNCHANGED <<redis, catalog, issued, clock, changes, started, req>>
    /\ UNCHANGED authVars
    /\ UNCHANGED expiry
    /\ UNCHANGED listVars

\* The response that follows the acknowledged write of the session
respond(r) ==
    /\ pc[r] = "respond"
    /\ IF req[r].kind = "postOrders"
       THEN Reply(r, [NoRes EXCEPT !.status = 201, !.order = res[r].order])
       ELSE Reply(r, CartJson(session[r].cart))
    /\ UNCHANGED <<redis, catalog, orders, issued, clock, changes, started,
                   req>>
    /\ UNCHANGED authVars
    /\ UNCHANGED expiry
    /\ UNCHANGED listVars

\* A variant without the where clause: C9 must tell it from
\* ordersOfSession.
ordersOfAnySession(all, sessionId) == all

\* where: { sessionId: session.id } of GET /orders
ordersOfSession(all, sessionId) ==
    SelectSeq(all, LAMBDA o : o.sessionId = sessionId)

\* GET /orders: prisma.order.findMany and the JSON body
orderFindMany(r) ==
    /\ pc[r] = "orderFindMany"
    /\ LET found == orderByCreatedAtDesc(ordersOfSession(orders, session[r].id))
       IN  Reply(r, [NoRes EXCEPT !.status = 200,
                 !.orders = [i \in 1..Len(found) |->
                     [found[i] EXCEPT !.items = itemsJson(found[i].items)]]])
    /\ UNCHANGED <<redis, catalog, orders, issued, clock, changes, started,
                   req>>
    /\ UNCHANGED authVars
    /\ UNCHANGED expiry
    /\ UNCHANGED listVars

\* items of the JSON body of GET /orders/:id, lines 458-464
orderItemsJson(lines, pizzas) ==
    [i \in 1..Len(lines) |->
        [pizzaId |-> lines[i].pizzaId,
         quantity |-> lines[i].quantity,
         unitPrice |-> pizzas[lines[i].pizzaId],
         totalPrice |-> lines[i].quantity * pizzas[lines[i].pizzaId]]]

\* where: { id: orderId, sessionId: session.id } of GET /orders/:id
findOrder(all, orderId, sessionId) ==
    SelectSeq(all, LAMBDA o : o.id = orderId /\ o.sessionId = sessionId)

\* GET /orders/:id: prisma.order.findUnique (items with their pizza) and
\* the JSON body
orderFindUnique(r) ==
    /\ pc[r] = "orderFindUnique"
    /\ LET found == findOrder(orders, req[r].orderId, session[r].id) IN
         IF found = <<>>
         THEN Reply(r, Status(404))
         ELSE Reply(r, [NoRes EXCEPT !.status = 200,
                   !.order = [found[1] EXCEPT
                                 !.items = orderItemsJson(@, catalog)]])
    /\ UNCHANGED <<redis, catalog, orders, issued, clock, changes, started,
                   req>>
    /\ UNCHANGED authVars
    /\ UNCHANGED expiry
    /\ UNCHANGED listVars

\* ------------------------------------------- failure of the session store
\* A variant in which the write that rejects has been applied all the same:
\* C11 must tell it from redisSetRejected.
redisSetApplied(r) ==
    /\ pc[r] = "redisSet"
    /\ redis' = redisSet(redis, sessionIdToRedisKey(session[r].id),
                         JsonRoundTrip(session[r]))
    /\ pc' = [pc EXCEPT ![r] = "done"]
    /\ session' = [session EXCEPT ![r] = NoSession]
    /\ orderData' = [orderData EXCEPT ![r] = NoOrderData]
    /\ UNCHANGED <<catalog, orders, issued, clock, changes, started, req, res>>
    /\ UNCHANGED authVars
    /\ expiry' = expireAt(expiry, sessionIdToRedisKey(session[r].id), dateNow)
    /\ UNCHANGED listVars

\* redisClient.set of a mutating handler rejects: nothing is stored, the
\* rejection ends the handler, no response is written by it.
redisSetRejected(r) ==
    /\ pc[r] = "redisSet"
    /\ pc' = [pc EXCEPT ![r] = "done"]
    /\ session' = [session EXCEPT ![r] = NoSession]
    /\ orderData' = [orderData EXCEPT ![r] = NoOrderData]
    /\ UNCHANGED <<redis, catalog, orders, issued, clock, changes, started, req,
                   res>>
    /\ UNCHANGED authVars
    /\ UNCHANGED expiry
    /\ UNCHANGED listVars

\* ------------------------------------------------------------ IAM routes
\* getSecureToken(): a token no one holds; the first one not yet returned
\* stands for any of them.
getSecureToken == "t" \o ToString(tokens + 1)

\* argon2.hash(password, {type: argon2id})
hashPassword(password) == <<"argon2id", password>>

\* A variant that accepts every password: C18 must tell it from
\* verifyPassword.
verifyAnyPassword(password, hash) == TRUE

\* argon2.verify(hash, password)
verifyPassword(password, hash) == hash = hashPassword(password)

\* A variant that finds no row: C20 must tell it from userByEmail.
noUserByEmail(all, email) == NoUser

\* prisma.user.findUnique({ where: { email } }): the id of the row, or null
userByEmail(all, email) ==
    IF \E i \in 1..Len(all) : all[i].email = email
    THEN CHOOSE i \in 1..Len(all) : all[i].email = email
    ELSE NoUser

\* prisma.emailVerification.findFirst({ where: { token } }): the id of the
\* row, or null
verificationByToken(all, token) ==
    IF \E i \in 1..Len(all) : ~all[i].deleted /\ all[i].token = token
    THEN CHOOSE i \in 1..Len(all) : ~all[i].deleted /\ all[i].token = token
    ELSE NoUser

\* the row prisma.user.create inserts
newUser(id, email, hash) ==
    [id |-> id, email |-> email, password |-> hash, verified |-> FALSE]

\* the row prisma.emailVerification.create inserts
newVerification(id, user, token, time) ==
    [id |-> id, userId |-> user.id, email |-> user.email, token |-> token,
     expiresAt |-> time + TOKEN_LIFETIME, deleted |-> FALSE]

\* A variant that sets the flag of every account: C15 must tell it from
\* markVerified.
markAllVerified(all, id) == [i \in 1..Len(all) |-> [all[i] EXCEPT !.verified = TRUE]]

\* data: { verified: true } where: { id }
markVerified(all, id) == [all EXCEPT ![id].verified = TRUE]

\* A variant of the marker that never expires: C16 must tell it from
\* markerLive.
markerPresent(all, email, time) == email \in DOMAIN all

\* redisClient.get(key) of a rate limit marker: set with EX, it is gone once
\* its time is up
markerLive(all, email, time) == email \in DOMAIN all /\ time < all[email]

\* redisClient.set(key, '1', 'EX', EMAIL_RATE_LIMIT)
markerSet(all, email, time) ==
    [e \in DOMAIN all \cup {email} |->
        IF e = email THEN time + EMAIL_RATE_LIMIT ELSE all[e]]

\* sendEmail(to, subject, body with the verification link); `at` is a
\* history field, the time of the call, which nothing reads
sendEmail(box, to, token, time) ==
    Append(box, [to |-> to, token |-> token, at |-> time])

\* by a rate limit window, or by more than the lifetime of a token
Durations == {EMAIL_RATE_LIMIT, TOKEN_LIFETIME + 1}

\* The time passes.
Tick(d) ==
    /\ ticks < MaxTicks
    /\ ticks' = ticks + 1
    /\ dateNow' = dateNow + d
    /\ UNCHANGED <<redis, catalog, orders, issued, clock, changes, started, pc,
                   req, session, orderData, res, users, verifications,
                   markers, outbox, tokens, pending, areq, local>>
    /\ UNCHANGED expiry
    /\ UNCHANGED listVars

\* just short of the lifetime of a session record, and the rest of it
SessionDurations == {SESSION_LIFETIME - 1, 1}

\* The time passes, and the session store drops the records set with EX
\* whose time is up.
Elapse(d) ==
    /\ ticks < MaxElapses
    /\ ticks' = ticks + 1
    /\ dateNow' = dateNow + d
    /\ LET live == {k \in DOMAIN redis : dateNow + d < expiry[k]} IN
         /\ redis' = [k \in live |-> redis[k]]
         /\ expiry' = [k \in live |-> expiry[k]]
    /\ UNCHANGED <<catalog, orders, issued, clock, changes, started, pc, req,
                   session, orderData, res, users, verifications, markers,
                   outbox, tokens, pending, areq, local>>
    /\ UNCHANGED listVars

\* the routes that call getSecureToken
TokenKinds == {"register", "resendVerification", "login"}

\* A request to an IAM route arrives.  register and resend-verification go
\* through sessionMiddleware; verify, login and logout do not: they carry
\* the cookie and nothing is read for it.  logout without a cookie is
\* answered 400 at once.
ArriveAuth(r, kind, cookie, email, password, token) ==
    /\ ~InFlight(r)
    /\ \A q \in Reqs : q < r => InFlight(q)
    /\ kind \in TokenKinds =>
          tokens + Cardinality({q \in Reqs : InFlight(q)
                                   /\ req[q].kind \in TokenKinds}) < MaxTokens
    /\ LET middleware == kind \in {"register", "resendVerification"}
           sessionId == IF middleware /\ cookie = NoCookie
                        THEN generateSessionId ELSE cookie
           first == CASE middleware -> "getExistingSession"
                      [] kind = "verify" -> "verificationFindFirst"
                      [] kind = "login" -> "loginFindUnique"
                      [] kind = "logout" ->
                            IF cookie = NoCookie THEN "done" ELSE "redisDel"
       IN  /\ middleware => sessionId \in GenIds
           /\ issued' = IF middleware THEN issued \cup {sessionId} ELSE issued
           /\ req' = [q \in Reqs |->
                        IF q = r
                        THEN [NoReq EXCEPT !.kind = kind,
                                           !.sessionId = sessionId]
                        ELSE IF InFlight(q) THEN req[q] ELSE NoReq]
           /\ res' = [q \in Reqs |->
                        IF q = r
                        THEN [NoRes EXCEPT
                                !.cookie = IF middleware /\ cookie = NoCookie
                                           THEN sessionId ELSE NoCookie,
                                !.status = IF first = "done" THEN 400 ELSE 0]
                        ELSE IF InFlight(q) THEN res[q] ELSE NoRes]
           /\ pc' = [q \in Reqs |->
                       IF q = r THEN first
                       ELSE IF InFlight(q) THEN pc[q] ELSE "idle"]
    /\ areq' = [q \in Reqs |->
                  IF q = r THEN [email |-> email, password |-> password,
                                 token |-> token]
                  ELSE IF InFlight(q) THEN areq[q] ELSE NoAreq]
    /\ started' = started + 1
    /\ UNCHANGED <<redis, catalog, orders, clock, changes, session, orderData,
                   users, verifications, markers, outbox, dateNow, ticks, tokens,
                   pending, local>>
    /\ UNCHANGED expiry
    /\ UNCHANGED listVars

\* The handler of an IAM route goes on to its next store call.
Go(r, next) ==
    /\ pc' = [pc EXCEPT ![r] = next]
    /\ UNCHANGED <<res, session, orderData>>

\* The handler of an IAM route answers and returns.
Answer(r, status) ==
    /\ Reply(r, Status(status))
    /\ local' = [local EXCEPT ![r] = NoLocal]

\* POST /auth/register: prisma.user.findUnique, then hashPassword
registerFindUnique(r) ==
    /\ pc[r] = "registerFindUnique"
    /\ IF userByEmail(users, areq[r].email) # NoUser
       THEN Answer(r, 409)
       ELSE Go(r, "userCreate") /\ UNCHANGED local
    /\ UNCHANGED <<redis, catalog, orders, issued, clock, changes, started, req,
                   users, verifications, markers, outbox, dateNow, ticks, tokens,
                   pending, areq>>
    /\ UNCHANGED expiry
    /\ UNCHANGED listVars

\* POST /auth/register: prisma.user.create.  User.email is @unique: the
\* insert of a second row of the email is refused, which ends the handler.
userCreate(r) ==
    /\ pc[r] = "userCreate"
    /\ IF userByEmail(users, areq[r].email) # NoUser
       THEN /\ pc' = [pc EXCEPT ![r] = "done"]
            /\ session' = [session EXCEPT ![r] = NoSession]
            /\ local' = [local EXCEPT ![r] = NoLocal]
            /\ UNCHANGED <<users, res, orderData>>
       ELSE /\ users' = Append(users,
                   newUser(Len(users) + 1, areq[r].email,
                           hashPassword(areq[r].password)))
            /\ local' = [local EXCEPT ![r].user = Len(users) + 1]
            /\ Go(r, "verificationCreate")
    /\ UNCHANGED <<redis, catalog, orders, issued, clock, changes, started, req,
                   verifications, markers, outbox, dateNow, ticks, tokens,
                   pending, areq>>
    /\ UNCHANGED expiry
    /\ UNCHANGED listVars

\* POST /auth/register: getSecureToken, prisma.emailVerification.create,
\* sendEmail(newUser.username, ...) and the 201.  A user row has no
\* username: the email is addressed to undefined.
verificationCreate(r) ==
    /\ pc[r] = "verificationCreate"
    /\ LET token == getSecureToken IN
         /\ verifications' = Append(verifications,
                newVerification(Len(verifications) + 1, users[local[r].user],
                                token, dateNow))
         /\ outbox' = sendEmail(outbox, NoEmail, token, dateNow)
    /\ tokens' = tokens + 1
    /\ Answer(r, 201)
    /\ UNCHANGED <<redis, catalog, orders, issued, clock, changes, started, req,
                   users, markers, dateNow, ticks, pending, areq>>
    /\ UNCHANGED expiry
    /\ UNCHANGED listVars

\* POST /auth/resend-verification: prisma.user.findUnique
resendFindUnique(r) ==
    /\ pc[r] = "resendFindUnique"
    /\ LET user == userByEmail(users, areq[r].email) IN
         IF user = NoUser \/ users[user].verified
         THEN Answer(r, 404)
         ELSE /\ local' = [local EXCEPT ![r].user = user]
              /\ Go(r, "rateLimitGet")
    /\ UNCHANGED <<redis, catalog, orders, issued, clock, changes, started, req,
                   users, verifications, markers, outbox, dateNow, ticks, tokens,
                   pending, areq>>
    /\ UNCHANGED expiry
    /\ UNCHANGED listVars

\* isEmailRateLimited: redisClient.get(key)
rateLimitGet(r) ==
    /\ pc[r] = "rateLimitGet"
    /\ local' = [local EXCEPT ![r].limited =
                    markerLive(markers, areq[r].email, dateNow)]
    /\ Go(r, "rateLimitThen")
    /\ UNCHANGED <<redis, catalog, orders, issued, clock, changes, started, req,
                   users, verifications, markers, outbox, dateNow, ticks, tokens,
                   pending, areq>>
    /\ UNCHANGED expiry
    /\ UNCHANGED listVars

\* isEmailRateLimited: the callback of the get (the set is queued behind it
\* on the one connection), then lines 557-567 of resend-verification: the
\* token goes into the link of the email and nowhere else
rateLimitThen(r) ==
    /\ pc[r] = "rateLimitThen"
    /\ IF local[r].limited
       THEN /\ Answer(r, 429)
            /\ UNCHANGED <<markers, outbox, tokens>>
       ELSE LET token == getSecureToken IN
            /\ markers' = markerSet(markers, areq[r].email, dateNow)
            /\ outbox' = sendEmail(outbox, users[local[r].user].email, token,
                                  dateNow)
            /\ tokens' = tokens + 1
            /\ Answer(r, 200)
    /\ UNCHANGED <<redis, catalog, orders, issued, clock, changes, started, req,
                   users, verifications, dateNow, ticks, pending, areq>>
    /\ UNCHANGED expiry
    /\ UNCHANGED listVars

\* GET /auth/verify: prisma.emailVerification.findFirst; without a row there
\* is no second read and the 404 follows at once
verificationFindFirst(r) ==
    /\ pc[r] = "verificationFindFirst"
    /\ LET found == verificationByToken(verifications, areq[r].token) IN
         IF found = NoUser
         THEN Answer(r, 404)
         ELSE /\ local' = [local EXCEPT ![r].verification = found]
              /\ Go(r, "verifyFindUnique")
    /\ UNCHANGED <<redis, catalog, orders, issued, clock, changes, started, req,
                   users, verifications, markers, outbox, dateNow, ticks, tokens,
                   pending, areq>>
    /\ UNCHANGED expiry
    /\ UNCHANGED listVars

\* Promise.all([prisma.user.update, prisma.emailVerification.delete]), not
\* awaited: the two writes are issued, the handler goes on.  A write issued
\* twice has the effect of one.
verifyWrites(user, verification) ==
    {[op |-> "userUpdate", id |-> user, token |-> NoToken],
     [op |-> "verificationDelete", id |-> verification, token |-> NoToken]}

\* GET /auth/verify: prisma.user.findUnique of the row's user, then lines
\* 581-601; the row's expiresAt is not read
verifyFindUnique(r) ==
    /\ pc[r] = "verifyFindUnique"
    /\ LET verification == verifications[local[r].verification]
           user == verification.userId
       IN  IF users[user].verified
           THEN Answer(r, 400) /\ UNCHANGED pending
           ELSE /\ pending' = pending \cup
                                 verifyWrites(user, verification.id)
                /\ Answer(r, 200)
    /\ UNCHANGED <<redis, catalog, orders, issued, clock, changes, started, req,
                   users, verifications, markers, outbox, dateNow, ticks, tokens,
                   areq>>
    /\ UNCHANGED expiry
    /\ UNCHANGED listVars

\* prisma.user.update of verify, executed
userUpdate(op) ==
    /\ op \in pending /\ op.op = "userUpdate"
    /\ users' = markVerified(users, op.id)
    /\ pending' = pending \ {op}
    /\ UNCHANGED <<redis, catalog, orders, issued, clock, changes, started, pc,
                   req, session, orderData, res, verifications, markers,
                   outbox, dateNow, ticks, tokens, areq, local>>
    /\ UNCHANGED expiry
    /\ UNCHANGED listVars

\* prisma.emailVerification.delete of verify, executed; on a row already
\* deleted it is refused
verificationDelete(op) ==
    /\ op \in pending /\ op.op = "verificationDelete"
    /\ verifications' = [verifications EXCEPT ![op.id].deleted = TRUE]
    /\ pending' = pending \ {op}
    /\ UNCHANGED <<redis, catalog, orders, issued, clock, changes, started, pc,
                   req, session, orderData, res, users, markers, outbox, dateNow,
                   ticks, tokens, areq, local>>
    /\ UNCHANGED expiry
    /\ UNCHANGED listVars

\* POST /auth/login: prisma.user.findUnique
loginFindUnique(r) ==
    /\ pc[r] = "loginFindUnique"
    /\ LET user == userByEmail(users, areq[r].email) IN
         IF user = NoUser \/ ~users[user].verified
         THEN Answer(r, 404)
         ELSE /\ local' = [local EXCEPT ![r].user = user]
              /\ Go(r, "loginVerifyPassword")
    /\ UNCHANGED <<redis, catalog, orders, issued, clock, changes, started, req,
                   users, verifications, markers, outbox, dateNow, ticks, tokens,
                   pending, areq>>
    /\ UNCHANGED expiry
    /\ UNCHANGED listVars

\* POST /auth/login: verifyPassword, then lines 617-642: the read of the
\* session of the new token is issued and not awaited, the 200 is sent
loginVerifyPassword(r) ==
    /\ pc[r] = "loginVerifyPassword"
    /\ IF ~verifyPassword(areq[r].password, users[local[r].user].password)
       THEN Answer(r, 401) /\ UNCHANGED <<tokens, pending>>
       ELSE /\ pending' = pending \cup
                  {[op |-> "loginSession", id |-> local[r].user,
                    token |-> getSecureToken]}
            /\ tokens' = tokens + 1
            /\ Answer(r, 200)
    /\ UNCHANGED <<redis, catalog, orders, issued, clock, changes, started, req,
                   users, verifications, markers, outbox, dateNow, ticks, areq>>
    /\ UNCHANGED expiry
    /\ UNCHANGED listVars

\* A variant that stores the record without the user's id: C19 must tell
\* it from loginSessionData.
loginSessionUnbound(store, key, userId) ==
    IF key \notin DOMAIN store
    THEN constructSessionData(NoCookie)
    ELSE JsonRoundTrip(store[key])

\* The record login stores under the key of its token, lines 626-635:
\* constructSessionData() without an id, or the record found, with the
\* user's id as userId
loginSessionData(store, key, userId) ==
    IF key \notin DOMAIN store
    THEN [constructSessionData(NoCookie) EXCEPT !.userId = userId]
    ELSE [JsonRoundTrip(store[key]) EXCEPT !.userId = userId]

\* POST /auth/login: redisClient.get(...).then(...) of lines 625-636,
\* executed after the handler has gone on
loginSession(op) ==
    /\ op \in pending /\ op.op = "loginSession"
    /\ LET key == sessionIdToRedisKey(op.token) IN
         redis' = redisSet(redis, key,
                           JsonRoundTrip(loginSessionData(redis, key, op.id)))
    /\ pending' = pending \ {op}
    /\ UNCHANGED <<catalog, orders, issued, clock, changes, started, pc, req,
                   session, orderData, res, users, verifications, markers,
                   outbox, dateNow, ticks, tokens, areq, local>>
    /\ expiry' = expireAt(expiry, sessionIdToRedisKey(op.token), dateNow)
    /\ UNCHANGED listVars

\* A variant that deletes nothing: C23 must tell it from redisDelete.
redisKeep(store, key) == store

\* redisClient.del(key)
redisDelete(store, key) == [k \in DOMAIN store \ {key} |-> store[k]]

\* POST /auth/logout: redisClient.del, res.clearCookie and the 200
redisDel(r) ==
    /\ pc[r] = "redisDel"
    /\ redis' = redisDelete(redis, sessionIdToRedisKey(req[r].sessionId))
    /\ res' = [res EXCEPT ![r] = [NoRes EXCEPT !.status = 200,
                                              !.cookie = ClearedCookie]]
    /\ pc' = [pc EXCEPT ![r] = "done"]
    /\ UNCHANGED <<catalog, orders, issued, clock, changes, started, req,
                   session, orderData>>
    /\ UNCHANGED authVars
    /\ expiry' = redisDelete(expiry, sessionIdToRedisKey(req[r].sessionId))
    /\ UNCHANGED listVars

\* ---------------------------------------------------------- Pizza routes
\* The catalog's owner sets the tags of a pizza.
TagPizza(p, keys) ==
    /\ p \in DOMAIN catalog
    /\ pizzaTags[p] # keys
    /\ changes < MaxTagChanges
    /\ changes' = changes + 1
    /\ pizzaTags' = [pizzaTags EXCEPT ![p] = keys]
    /\ UNCHANGED <<redis, catalog, orders, issued, clock, started, pc, req,
                   session, orderData, res, listing>>
    /\ UNCHANGED authVars
    /\ UNCHANGED expiry

\* the ids of a set of pizzas in the order of the ids
RECURSIVE sortedIds(_)
sortedIds(ids) ==
    IF ids = {} THEN <<>>
    ELSE LET m == CHOOSE i \in ids : \A j \in ids : i <= j
         IN  <<m>> \o sortedIds(ids \ {m})

\* skip: offset, take: limit / LIMIT limit OFFSET offset
skipTake(rows, offset, limit) ==
    SubSeq(rows, offset + 1,
           IF offset + limit < Len(rows) THEN offset + limit ELSE Len(rows))

\* the keys of a list of tags
keysOf(tags) == {tags[i] : i \in 1..Len(tags)}

\* where: { tags: { some: { key: { in: [tag] } } } }
withSomeTag(pizzas, pizzaTagsNow, tag) ==
    {p \in DOMAIN pizzas : tag \in pizzaTagsNow[p]}

\* WHERE "B" IN (keys) GROUP BY "A" HAVING COUNT(DISTINCT "B") = tags.length
withAllTags(pizzas, pizzaTagsNow, tags) ==
    {p \in DOMAIN pizzas :
        /\ pizzaTagsNow[p] \cap keysOf(tags) # {}
        /\ Cardinality(pizzaTagsNow[p] \cap keysOf(tags)) = Len(tags)}

\* parseInt(value) || fallback
orDefault(value, fallback) == IF value = 0 THEN fallback ELSE value

\* GET /pizzas, lines 206-213: the query is parsed, the offset is taken
\* from req.query.page, and a limit out of range is answered 400
listPizzas(tags, limit, page, offset) ==
    /\ listing.stage \in {"idle", "done"}
    /\ LET limit0 == orDefault(limit, 20)
           query == [NoListing EXCEPT !.tags = tags, !.limit = limit,
                                      !.page = page, !.offset = offset,
                                      !.resLimit = limit0,
                                      !.resOffset = orDefault(page, 0)]
       IN  listing' =
             IF limit0 < 0 \/ limit0 > 100
             THEN [query EXCEPT !.stage = "done", !.status = 400,
                                !.resLimit = 0, !.resOffset = 0]
             ELSE [query EXCEPT !.stage = IF Len(tags) <= 1
                                          THEN "findPizzas" ELSE "queryRaw"]
    /\ started' = started + 1
    /\ UNCHANGED <<redis, catalog, orders, issued, clock, changes, pc, req,
                   session, orderData, res, pizzaTags>>
    /\ UNCHANGED authVars
    /\ UNCHANGED expiry

\* findPizzas with no tag or one: prisma.pizza.findMany with skip and take
\* and prisma.pizza.count with the same filter, then the response
findPizzas ==
    /\ listing.stage = "findPizzas"
    /\ LET found == IF Len(listing.tags) = 0 THEN DOMAIN catalog
                    ELSE withSomeTag(catalog, pizzaTags, listing.tags[1])
       IN  listing' = [listing EXCEPT
                          !.stage = "done", !.status = 200,
                          !.total = Cardinality(found),
                          !.results = skipTake(sortedIds(found),
                                               listing.resOffset,
                                               listing.resLimit)]
    /\ UNCHANGED <<redis, catalog, orders, issued, clock, changes, started, pc,
                   req, session, orderData, res, pizzaTags>>
    /\ UNCHANGED authVars
    /\ UNCHANGED expiry

\* findPizzasWithMultipleTags: the raw query, with its LIMIT and OFFSET
queryRaw ==
    /\ listing.stage = "queryRaw"
    /\ listing' = [listing EXCEPT
                      !.stage = "findMany",
                      !.ids = skipTake(sortedIds(withAllTags(catalog, pizzaTags,
                                                             listing.tags)),
                                       orDefault(listing.resOffset, 0),
                                       orDefault(listing.resLimit, 20))]
    /\ UNCHANGED <<redis, catalog, orders, issued, clock, changes, started, pc,
                   req, session, orderData, res, pizzaTags>>
    /\ UNCHANGED authVars
    /\ UNCHANGED expiry

\* findPizzasWithMultipleTags: prisma.pizza.findMany of the ids, the count
\* pizzaIds.length, then the response
findMany ==
    /\ listing.stage = "findMany"
    /\ listing' = [listing EXCEPT
                      !.stage = "done", !.status = 200,
                      !.total = Len(listing.ids),
                      !.results = SelectSeq(listing.ids,
                                            LAMBDA id : id \in DOMAIN catalog)]
    /\ UNCHANGED <<redis, catalog, orders, issued, clock, changes, started, pc,
                   req, session, orderData, res, pizzaTags>>
    /\ UNCHANGED authVars
    /\ UNCHANGED expiry

\* ------------------------------------------------------------------ Next
Kinds == {"getCart", "postCart", "deleteCartPizza", "deleteCart",
          "postOrders", "getOrders", "getOrder"}

\* the routes that write the session record
RaceKinds == {"postCart", "deleteCartPizza", "deleteCart", "postOrders"}

\* a request of one of `kinds` arrives, with any cookie a client can hold
\* and any body with a quantity of `quantities`
Request(r, kinds, quantities) ==
    \E kind \in kinds, cookie \in {NoCookie} \cup issued :
       \E pizzaId \in (IF kind \in {"postCart", "deleteCartPizza"}
                       THEN Pizzas ELSE {0}),
          quantity \in (IF kind = "postCart" THEN quantities ELSE {0}),
          orderId \in (IF kind = "getOrder" THEN 1..MaxOrders ELSE {0}) :
          Arrive(r, kind, cookie, pizzaId, quantity, orderId)

Environment ==
    \/ \E p \in Pizzas, v \in Prices : SetPrice(p, v)
    \/ \E p \in Pizzas : DeletePizza(p)

Serve(r) ==
    \/ getExistingSession(r)
    \/ createSession(r)
    \/ cartFindUnique(r)
    \/ redisSetSession(r)
    \/ pizzaFindMany(r)
    \/ orderCreate(r)
    \/ respond(r)

\* Every route, the requests served one after the other.
Next ==
    \/ Environment
    \/ \E r \in Reqs :
          /\ started < MaxRequests
          /\ \A q \in Reqs : ~InFlight(q)
          /\ Request(r, Kinds, Quantities)
    \/ \E r \in Reqs : Serve(r)
    \/ \E r \in Reqs : orderFindMany(r)
    \/ \E r \in Reqs : orderFindUnique(r)

Spec == Init /\ [][Next]_vars

\* The routes that write the session record, two requests at a time.
NextRace ==
    \/ Environment
    \/ \E r \in Reqs : started < MaxRaceRequests /\ Request(r, RaceKinds, Quantities)
    \/ \E r \in Reqs : Serve(r)

SpecRace == Init /\ [][NextRace]_vars

\* the routes that make and read the order history
OrderKinds == {"postCart", "postOrders", "getOrders", "getOrder"}

\* The order history: carts filled one pizza at a time and committed, orders
\* read, the requests served one after the other, the catalog left alone.
NextOrders ==
    \/ \E r \in Reqs :
          /\ started < MaxOrderRequests
          /\ \A q \in Reqs : ~InFlight(q)
          /\ Request(r, OrderKinds, {1})
    \/ \E r \in Reqs : Serve(r)
    \/ \E r \in Reqs : orderFindMany(r)
    \/ \E r \in Reqs : orderFindUnique(r)

SpecOrders == Init /\ [][NextOrders]_vars

\* The cart and the order commit while a write of the session store may
\* fail, the requests served one after the other.
FaultKinds == {"postCart", "postOrders"}

NextFault ==
    \/ Environment
    \/ \E r \in Reqs :
          /\ started < MaxFaultRequests
          /\ \A q \in Reqs : ~InFlight(q)
          /\ Request(r, FaultKinds, {1})
    \/ \E r \in Reqs : Serve(r)
    \/ \E r \in Reqs : redisSetRejected(r)

SpecFault == Init /\ [][NextFault]_vars

\* the tokens a client may present to verify
AllTokens == {"t" \o ToString(i) : i \in 1..MaxTokens}

\* a request to one of the IAM routes `kinds` arrives, with any cookie a
\* client can hold and any body
AuthRequest(r, kinds) ==
    \E kind \in kinds :
       \E cookie \in (IF kind = "verify" THEN {NoCookie}
                      ELSE {NoCookie} \cup issued),
          email \in (IF kind \in {"register", "resendVerification", "login"}
                     THEN Emails ELSE {NoEmail}),
          password \in (IF kind \in {"register", "login"}
                        THEN Passwords ELSE {NoPassword}),
          token \in (IF kind = "verify" THEN AllTokens ELSE {NoToken}) :
          ArriveAuth(r, kind, cookie, email, password, token)

\* sessionMiddleware of register and resend-verification
ServeSession(r) ==
    \/ getExistingSession(r)
    \/ createSession(r)

ServeRegister(r) ==
    \/ registerFindUnique(r)
    \/ userCreate(r)
    \/ verificationCreate(r)

ServeVerify(r) ==
    \/ verificationFindFirst(r)
    \/ verifyFindUnique(r)

\* the writes of verify that were not awaited
Background ==
    \E op \in pending : userUpdate(op) \/ verificationDelete(op)

ServeResend(r) ==
    \/ resendFindUnique(r)
    \/ rateLimitGet(r)
    \/ rateLimitThen(r)

AuthKinds == {"register", "resendVerification", "verify", "login", "logout"}

\* The accounts: every IAM route, two requests at a time.
NextAuth ==
    \/ \E r \in Reqs : started < MaxAuthRequests /\ AuthRequest(r, AuthKinds)
    \/ \E r \in Reqs : ServeSession(r)
    \/ \E r \in Reqs : ServeRegister(r)
    \/ \E r \in Reqs : ServeResend(r)
    \/ \E r \in Reqs : ServeVerify(r)
    \/ Background
    \/ \E r \in Reqs : loginFindUnique(r) \/ loginVerifyPassword(r)
    \/ \E op \in pending : loginSession(op)
    \/ \E r \in Reqs : redisDel(r)

SpecAuth == Init /\ [][NextAuth]_vars

ResendKinds == {"register", "resendVerification", "verify"}

\* The verification emails: register, resend-verification and verify, the
\* requests served one after the other, while the time passes.
NextResend ==
    \/ \E d \in Durations : Tick(d)
    \/ \E r \in Reqs :
          /\ started < MaxResendRequests
          /\ \A q \in Reqs : ~InFlight(q)
          /\ AuthRequest(r, ResendKinds)
    \/ \E r \in Reqs : ServeSession(r)
    \/ \E r \in Reqs : ServeRegister(r)
    \/ \E r \in Reqs : ServeResend(r)
    \/ \E r \in Reqs : ServeVerify(r)
    \/ Background

SpecResend == Init /\ [][NextResend]_vars

\* a registration arrives, with any cookie a client can hold and a body
\* that may be incomplete or invalid
RegisterRequest(r) ==
    \E cookie \in {NoCookie} \cup issued,
       email \in RegisterEmails \cup {NoEmail},
       password \in RegisterPasswords \cup {NoPassword} :
       ArriveAuth(r, "register", cookie, email, password, NoToken)

\* The registration, the requests served one after the other.
NextRegister ==
    \/ \E r \in Reqs :
          /\ started < MaxRegisterRequests
          /\ \A q \in Reqs : ~InFlight(q)
          /\ RegisterRequest(r)
    \/ \E r \in Reqs : ServeSession(r)
    \/ \E r \in Reqs : ServeRegister(r)

SpecRegister == Init /\ [][NextRegister]_vars

LogoutCartKinds == {"getCart", "postCart"}

\* POST /cart and DELETE /cart/:pizzaId after the session is attached
ServeCart(r) ==
    \/ cartFindUnique(r)
    \/ redisSetSession(r)
    \/ respond(r)

\* the session ids a client holds: those whose set-cookie has been answered
Held == {id \in issued : \A q \in Reqs : InFlight(q) => res[q].cookie # id}

\* The cart and the logout, two requests at a time; a cookie is presented
\* once the response that set it has been received.
NextLogout ==
    \/ \E r \in Reqs :
          /\ started < MaxLogoutRequests
          /\ \/ Request(r, LogoutCartKinds, {1})
             \/ AuthRequest(r, {"logout"})
          /\ res'[r].cookie = NoCookie =>
                req'[r].sessionId \in {NoCookie} \cup Held
    \/ \E r \in Reqs : ServeSession(r)
    \/ \E r \in Reqs : ServeCart(r)
    \/ \E r \in Reqs : redisDel(r)

SpecLogout == Init /\ [][NextLogout]_vars

CartKinds == {"postCart", "deleteCartPizza"}

\* The items of the cart: POST /cart and DELETE /cart/:pizzaId, the requests
\* served one after the other, while the catalog changes.
NextCart ==
    \/ Environment
    \/ \E r \in Reqs :
          /\ started < MaxCartRequests
          /\ \A q \in Reqs : ~InFlight(q)
          /\ Request(r, CartKinds, CartQuantities)
    \/ \E r \in Reqs : ServeSession(r)
    \/ \E r \in Reqs : ServeCart(r)

SpecCart == Init /\ [][NextCart]_vars

ExpiryKinds == {"getCart", "postCart", "getOrders", "getOrder"}

\* The cart read and written while the time passes and the records expire,
\* the requests served one after the other.
NextExpiry ==
    \/ \E d \in SessionDurations : Elapse(d)
    \/ \E r \in Reqs :
          /\ started < MaxExpiryRequests
          /\ \A q \in Reqs : ~InFlight(q)
          /\ Request(r, ExpiryKinds, {1})
    \/ \E r \in Reqs : ServeSession(r)
    \/ \E r \in Reqs : ServeCart(r)
    \/ \E r \in Reqs : orderFindMany(r)
    \/ \E r \in Reqs : orderFindUnique(r)

SpecExpiry == Init /\ [][NextExpiry]_vars

\* The list of the pizzas, one request at a time, while the catalog's
\* owner tags and deletes pizzas.
NextPizzas ==
    \/ \E p \in Pizzas, keys \in SUBSET TagKeys : TagPizza(p, keys)
    \/ \E p \in Pizzas : DeletePizza(p)
    \/ /\ started < MaxListRequests
       /\ \E tags \in QueryTags, limit \in QueryLimits,
             page \in QueryOffsets, offset \in QueryOffsets :
             listPizzas(tags, limit, page, offset)
    \/ findPizzas
    \/ queryRaw
    \/ findMany

SpecPizzas == Init /\ [][NextPizzas]_vars

CommitKinds == {"postCart", "postOrders"}

\* The cart and its commit, two requests at a time, the catalog left alone;
\* a cookie is presented once the response that set it has been received.
NextCommit ==
    \/ \E r \in Reqs :
          /\ started < MaxCommitRequests
          /\ Request(r, CommitKinds, {1})
          /\ res'[r].cookie = NoCookie =>
                req'[r].sessionId \in {NoCookie} \cup Held
    \/ \E r \in Reqs : Serve(r)

SpecCommit == Init /\ [][NextCommit]_vars

\* ================================================================ claims
Done(r, kind) == pc[r] = "done" /\ req[r].kind = kind
StoredCart(sessionId) == redis[sessionIdToRedisKey(sessionId)].cart

\* The full recomputation of a stored record's total: the sum over its
\* items of quantity x the unit price in force at the item's last mutation.
recomputedTotal(s) ==
    SumSeq([i \in 1..Len(s.cart.items) |->
               s.cart.items[i].quantity * s.priceAt[i]])

Positive(items) == \A i \in 1..Len(items) : items[i].quantity >= 1

\* C1: in every stored session the running cart.total equals the full
\* recomputation, the sum of quantity x unit price at the item's mutation
\* (stated for the carts whose quantities are all positive, so that a
\* failure owes nothing to the quantities of C2).
C1_CartTotalInvariant ==
    \A key \in DOMAIN redis :
       Positive(redis[key].cart.items) =>
          redis[key].cart.total = recomputedTotal(redis[key])

\* C2: in every stored session every item has quantity >= 1 and the total
\* is >= 0.
C2_QuantityAndTotal ==
    \A key \in DOMAIN redis :
       /\ redis[key].cart.total >= 0
       /\ Positive(redis[key].cart.items)

\* C3: the total of every order is the sum of the totalPrice of its lines
\* (stated for the orders whose quantities are all positive).
C3_OrderTotal ==
    \A i \in 1..Len(orders) :
       Positive(orders[i].items) =>
          orders[i].total =
             SumSeq([j \in 1..Len(orders[i].items) |->
                        orders[i].items[j].totalPrice])

\* The step in which request r leaves the await `from` for `to`.
Step(r, from, to) == pc[r] = from /\ pc'[r] = to

\* C4, the Pricing step: the data built for the order has one line per item
\* of the request's cart, same pizzaId and quantity, at the catalog price
\* read in this step, and carries the session's id and userId.
C4_Priced(r) ==
    Step(r, "pizzaFindMany", "orderCreate") /\ orderData'[r].valid =>
       LET items == session[r].cart.items
           data == orderData'[r]
       IN  /\ data.sessionId = req[r].sessionId
           /\ data.userId = session[r].userId
           /\ Len(data.items) = Len(items)
           /\ \A i \in 1..Len(items) :
                 /\ data.items[i].pizzaId = items[i].pizzaId
                 /\ data.items[i].quantity = items[i].quantity
                 /\ data.items[i].unitPrice = catalog[items[i].pizzaId]
                 /\ data.items[i].totalPrice =
                       catalog[items[i].pizzaId] * items[i].quantity

\* C4, the Persisting step: exactly one order is added, pending, with the
\* lines, session id and user id of the data built by the Pricing step.
C4_Persisted(r) ==
    Step(r, "orderCreate", "redisSet") =>
       /\ Len(orders') = Len(orders) + 1
       /\ SubSeq(orders', 1, Len(orders)) = orders
       /\ LET order == orders'[Len(orders')] IN
             /\ order.items = orderData[r].items
             /\ order.sessionId = orderData[r].sessionId
             /\ order.userId = orderData[r].userId
             /\ order.status = "pending"

\* C4: a successful POST /orders creates exactly one order whose lines are
\* the cart's items at the catalog price read by the commit, totalPrice =
\* unitPrice x quantity, with the session's id and userId, status pending;
\* and nothing else ever adds or changes an order.
C4_OrderFromCart ==
    [][/\ \A r \in Reqs : C4_Priced(r) /\ C4_Persisted(r)
       /\ orders' # orders =>
             \E r \in Reqs : Step(r, "orderCreate", "redisSet")]_vars

\* C4 witness: a 201 for an order of two lines (two cart items)
C4_Witness ==
    \E r \in Reqs :
       /\ Done(r, "postOrders") /\ res[r].status = 201
       /\ \E i \in 1..Len(orders) :
             /\ orders[i].id = res[r].order.id
             /\ Len(orders[i].items) = 2
             /\ orders[i].sessionId = req[r].sessionId

\* a pizza of the cart copy of request r is not in the catalog
MissingPizza(r) ==
    \E i \in 1..Len(session[r].cart.items) :
       session[r].cart.items[i].pizzaId \notin DOMAIN catalog

\* C5: when a pizza of the cart is not in the catalog at the catalog read or
\* at the order write of POST /orders, that step writes no order and no
\* session record, the read answers 404, and the request never reaches the
\* write of the session or the 201.
C5_NoPartialOrder ==
    [][\A r \in Reqs :
          /\ req[r].kind = "postOrders"
          /\ pc[r] \in {"pizzaFindMany", "orderCreate"}
          /\ pc'[r] # pc[r]
          /\ MissingPizza(r)
          => /\ orders' = orders
             /\ redis' = redis
             /\ pc'[r] \in {"orderCreate", "done"}
             /\ pc[r] = "pizzaFindMany" => res'[r].status = 404
             /\ res'[r].status # 201
             /\ pc'[r] = "orderCreate" => ~orderData'[r].valid]_vars

\* C5 witness: POST /orders ended with 404, no order exists and the stored
\* cart still holds its items
C5_Witness ==
    \E r \in Reqs :
       /\ Done(r, "postOrders") /\ res[r].status = 404
       /\ orders = <<>>
       /\ StoredCart(req[r].sessionId).items # <<>>

\* C6: POST /orders that loads a stored session with an empty cart answers
\* 400 in that very step (no catalog read follows) and writes neither an
\* order nor the session store; on a session created by the request it
\* answers 400 as well and writes no order; and no order without lines
\* ever exists.
C6_EmptyCart ==
    /\ [](\A i \in 1..Len(orders) : Len(orders[i].items) >= 1)
    /\ [][\A r \in Reqs :
             LET key == sessionIdToRedisKey(req[r].sessionId) IN
             /\ /\ req[r].kind = "postOrders"
                /\ pc[r] = "getExistingSession" /\ pc'[r] # pc[r]
                /\ key \in DOMAIN redis
                /\ redis[key].cart.items = <<>>
                => /\ pc'[r] = "done" /\ res'[r].status = 400
                   /\ orders' = orders /\ redis' = redis
             /\ /\ req[r].kind = "postOrders"
                /\ pc[r] = "createSession" /\ pc'[r] # pc[r]
                => /\ pc'[r] = "done" /\ res'[r].status = 400
                   /\ orders' = orders]_vars

\* C6 witness: POST /orders on a stored session that other requests have
\* left with an empty cart ended with 400
C6_Witness ==
    \E r \in Reqs :
       /\ Done(r, "postOrders") /\ res[r].status = 400
       /\ res[r].cookie = NoCookie
       /\ StoredCart(req[r].sessionId) = EmptyCart
       /\ orders = <<>>

\* the session id of request r is that of no other request in flight
Alone(r) ==
    \A q \in Reqs \ {r} : InFlight(q) => req[q].sessionId # req[r].sessionId

\* C7: once POST /orders has answered 201, and while no other request of the
\* session is served, the stored cart is {items: [], total: 0}; and the
\* cart GET /cart answers is the stored one.
C7_ClearedAfterCommit ==
    \A r \in Reqs :
       /\ Done(r, "postOrders") /\ res[r].status = 201 /\ Alone(r) =>
             /\ sessionIdToRedisKey(req[r].sessionId) \in DOMAIN redis
             /\ StoredCart(req[r].sessionId) = EmptyCart
       /\ Done(r, "getCart") /\ Alone(r) =>
             /\ res[r].status = 200
             /\ res[r].cart = StoredCart(req[r].sessionId)

\* C7 witness: GET /cart answers the empty cart on a session of which an
\* order was committed from a cart that was not empty
C7_Witness ==
    \E r \in Reqs :
       /\ Done(r, "getCart") /\ res[r].cart = EmptyCart
       /\ \E i \in 1..Len(orders) : orders[i].sessionId = req[r].sessionId

\* C8: what GET /orders/:id answers for an order is what was committed: the
\* same lines with the same unitPrice and totalPrice.
C8_OrderImmutableOnRead ==
    \A r \in Reqs :
       Done(r, "getOrder") /\ res[r].status = 200 =>
          \E i \in 1..Len(orders) :
             /\ orders[i].id = res[r].order.id
             /\ (Positive(orders[i].items) =>
                    res[r].order.items = orders[i].items)

\* the positions of `all` holding the orders committed under sessionId
OrdersOf(all, sessionId) ==
    {i \in 1..Len(all) : all[i].sessionId = sessionId}

\* C9: GET /orders answers exactly the orders committed under the session
\* of the request, each once, latest createdAt first; GET /orders/:id
\* answers 200 only for an order of the session and 404 for the order of
\* another one.
C9_OrdersOfSessionOnly ==
    \A r \in Reqs :
       /\ Done(r, "getOrders") =>
             LET list == res[r].orders
                 mine == OrdersOf(orders, req[r].sessionId)
             IN  /\ res[r].status = 200
                 /\ Len(list) = Cardinality(mine)
                 /\ {list[i].id : i \in 1..Len(list)} =
                       {orders[i].id : i \in mine}
                 /\ \A i \in 1..Len(list) : list[i].sessionId = req[r].sessionId
                 /\ \A i, j \in 1..Len(list) :
                       i < j => list[i].createdAt >= list[j].createdAt
       /\ Done(r, "getOrder") =>
             LET hit == {i \in 1..Len(orders) : orders[i].id = req[r].orderId}
             IN  /\ res[r].status \in {200, 404}
                 /\ res[r].status = 200 <=>
                       \E i \in hit : orders[i].sessionId = req[r].sessionId
                 /\ res[r].status = 200 => res[r].order.id = req[r].orderId

\* C9 witness: the session of two orders lists both, the later one first,
\* and not the order that another session has committed
C9_Witness ==
    \E r \in Reqs :
       /\ Done(r, "getOrders")
       /\ Len(res[r].orders) = 2
       /\ res[r].orders[1].createdAt > res[r].orders[2].createdAt
       /\ \E i \in 1..Len(orders) : orders[i].sessionId # req[r].sessionId

\* C10: the write of the session replaces the whole stored record by the
\* writer's copy, whatever the record holds by then, and touches no other
\* key: the last of two writers wins.
C10_LastWriteWins ==
    [][\A r \in Reqs :
          Step(r, "redisSet", "respond") =>
             LET key == sessionIdToRedisKey(req[r].sessionId) IN
             /\ redis'[key] = session[r]
             /\ DOMAIN redis' = DOMAIN redis \cup {key}
             /\ \A k \in DOMAIN redis \ {key} : redis'[k] = redis[k]]_vars

\* C10 witness: two POST /cart of one session, for two pizzas, have both
\* answered 200 and the stored cart holds one of the two pizzas only
C10_Witness ==
    /\ \A r \in Reqs : Done(r, "postCart") /\ res[r].status = 200
    /\ req[1].sessionId = req[2].sessionId
    /\ req[1].pizzaId # req[2].pizzaId
    /\ Len(StoredCart(req[1].sessionId).items) = 1
    /\ Len(res[1].cart.items) = 1 /\ Len(res[2].cart.items) = 1

\* POST /orders of request r has ended at the write of the session, which
\* was rejected: an order was created, no response was written
FailedClear(r) ==
    Done(r, "postOrders") /\ res[r].status = 0 /\ res[r].order.id # 0

\* C11: when the write of the session of POST /orders fails after the
\* order was created, the order is in the relational store and the stored
\* cart still holds the items of the order; and every order a POST /orders
\* creates, a re-submitted one included, has the items of the stored cart.
C11_OrderKeptCartKept ==
    /\ [](\A r \in Reqs :
             FailedClear(r) =>
                \E i \in 1..Len(orders) :
                   /\ orders[i].id = res[r].order.id
                   /\ orders[i].sessionId = req[r].sessionId
                   /\ itemsJson(orders[i].items) =
                         StoredCart(req[r].sessionId).items)
    /\ [][\A r \in Reqs :
             Step(r, "orderCreate", "redisSet") =>
                /\ Len(orders') = Len(orders) + 1
                /\ itemsJson(orders'[Len(orders')].items) =
                      StoredCart(req[r].sessionId).items]_vars

\* C11 witness: the cart was filled once and submitted twice, the write of
\* the session failed both times: two orders of the session with the same
\* items, which the stored cart still holds
C11_Witness ==
    \E r \in Reqs :
       /\ FailedClear(r) /\ res[r].order.id = 2
       /\ started = 3
       /\ orders[1].sessionId = orders[2].sessionId
       /\ itemsJson(orders[1].items) = itemsJson(orders[2].items)
       /\ StoredCart(req[r].sessionId).items = itemsJson(orders[2].items)

\* the awaits of POST /orders, in their order, with the error exits
OrderStages ==
    {<<"getExistingSession", "createSession">>,
     <<"getExistingSession", "pizzaFindMany">>,
     <<"getExistingSession", "done">>,
     <<"createSession", "done">>,
     <<"pizzaFindMany", "orderCreate">>,
     <<"pizzaFindMany", "done">>,
     <<"orderCreate", "redisSet">>,
     <<"orderCreate", "done">>,
     <<"redisSet", "respond">>,
     <<"redisSet", "done">>,
     <<"respond", "done">>}

\* C12: a POST /orders request passes its stages in the order Validating,
\* Pricing, Persisting, ClearingCart, with an error exit from each; the
\* order write changes the orders and not the session store; the session
\* is overwritten, with an empty cart, only by the ClearingCart step, when
\* the order of the request is in the relational store; when the order
\* write fails nothing is stored and the request ends without a response of
\* success; 201 is answered only after the ClearingCart step.
C12_StagesInOrder ==
    [][\A r \in Reqs :
          req[r].kind = "postOrders" /\ pc'[r] # pc[r] /\ InFlight(r) =>
             LET key == sessionIdToRedisKey(req[r].sessionId) IN
             /\ <<pc[r], pc'[r]>> \in OrderStages
             /\ pc[r] # "createSession" /\ redis' # redis =>
                   /\ Step(r, "redisSet", "respond")
                   /\ redis'[key].cart = EmptyCart
                   /\ \E i \in 1..Len(orders) :
                         /\ orders[i].id = res[r].order.id
                         /\ orders[i].sessionId = req[r].sessionId
             /\ orders' # orders =>
                   Step(r, "orderCreate", "redisSet") /\ redis' = redis
             /\ Step(r, "orderCreate", "done") =>
                   /\ redis' = redis /\ orders' = orders
                   /\ res'[r].status # 201
             /\ res'[r].status = 201 => Step(r, "respond", "done")]_vars

\* C12 witness: the order write of a POST /orders was refused (the pizza
\* was deleted after the Pricing step): no order, the stored cart as it
\* was, no response of success
C12_Witness ==
    \E r \in Reqs :
       /\ Done(r, "postOrders") /\ res[r].status = 0 /\ res[r].order.id = 0
       /\ orders = <<>>
       /\ StoredCart(req[r].sessionId).items # <<>>

\* C13: of two GET /auth/verify with one token at most one answers 200,
\* and the other one answers 404.
C13_SingleUse ==
    \A r1, r2 \in Reqs :
       /\ r1 # r2
       /\ Done(r1, "verify") /\ Done(r2, "verify")
       /\ areq[r1].token = areq[r2].token
       /\ res[r1].status = 200
       => res[r2].status = 404

\* C14: GET /auth/verify that has found the row of its token, the row's
\* expiresAt lying in the past, answers 404 and issues no write.
C14_ExpiredRejected ==
    [][\A r \in Reqs :
          /\ Step(r, "verifyFindUnique", "done")
          /\ verifications[local[r].verification].expiresAt < dateNow
          => res'[r].status = 404 /\ pending' = pending]_vars

\* the rows of the verification tokens of account id
TokensOf(id) ==
    {verifications[v].token : v \in {i \in 1..Len(verifications) :
                                        verifications[i].userId = id}}

\* C15: accounts are never removed and keep their id and email; an account
\* is created with verified = false; the flag of an account changes only
\* from false to true, and only by the execution of an update that a GET
\* /auth/verify has issued; verify issues the update of an account only
\* when the token it presents is one of that account's.
C15_VerifiedMonotonic ==
    [][/\ Len(users') >= Len(users)
       /\ \A i \in 1..Len(users') :
             IF i > Len(users)
             THEN ~users'[i].verified
             ELSE /\ users'[i].id = users[i].id
                  /\ users'[i].email = users[i].email
                  /\ users[i].verified => users'[i].verified
                  /\ users'[i].verified # users[i].verified =>
                        \E op \in pending \ pending' :
                           op.op = "userUpdate" /\ op.id = i
       /\ \A op \in pending' \ pending :
             op.op = "userUpdate" =>
                \E r \in Reqs :
                   /\ req[r].kind = "verify"
                   /\ Step(r, "verifyFindUnique", "done")
                   /\ res'[r].status = 200
                   /\ areq[r].token \in TokensOf(op.id)]_vars

\* C15 witness: of two accounts one has been verified, the other one not
C15_Witness ==
    /\ Len(users) = 2
    /\ users[1].verified # users[2].verified

\* a resend-verification for `email` was accepted less than 60 seconds
\* before `time`: its email was sent then
AcceptedWithin(email, time) ==
    \E i \in 1..Len(outbox) :
       outbox[i].to = email /\ time < outbox[i].at + 60

\* C16: a resend-verification call for an unverified account is held to be
\* rate limited exactly when a call for the email was accepted less than
\* 60 seconds before; a rate limited call answers 429, sends no email and
\* leaves the marker as it is; any other call answers 200, sends one email
\* to the account's address and starts a window of 60 seconds.
C16_RateLimitWindow ==
    [][\A r \in Reqs :
          /\ Step(r, "rateLimitGet", "rateLimitThen") =>
                (local'[r].limited <=> AcceptedWithin(areq[r].email, dateNow))
          /\ Step(r, "rateLimitThen", "done") =>
                IF local[r].limited
                THEN /\ res'[r].status = 429
                     /\ outbox' = outbox /\ markers' = markers
                ELSE /\ res'[r].status = 200
                     /\ Len(outbox') = Len(outbox) + 1
                     /\ outbox'[Len(outbox')].to = areq[r].email
                     /\ markers'[areq[r].email] = dateNow + 60]_vars

\* C16 witness: a second email has been sent to the address, 60 seconds or
\* more after the first one, by a call that answered 200
C16_Witness ==
    \E r \in Reqs :
       /\ Done(r, "resendVerification") /\ res[r].status = 200
       /\ \E i, j \in 1..Len(outbox) :
             /\ i < j
             /\ outbox[i].to = areq[r].email /\ outbox[j].to = areq[r].email
             /\ outbox[j].at >= outbox[i].at + 60

\* C17: GET /auth/verify with the token of an email sent by
\* resend-verification answers 200.
C17_ResentTokenUsable ==
    \A r \in Reqs :
       /\ Done(r, "verify")
       /\ \E i \in 1..Len(outbox) :
             outbox[i].to # NoEmail /\ outbox[i].token = areq[r].token
       => res[r].status = 200

\* the accounts of `email`
AccountsOf(email) == {i \in 1..Len(users) : users[i].email = email}

CookieKeys == {sessionIdToRedisKey(c) : c \in issued}

C20_RegisterConflict ==
    /\ [](\A i, j \in 1..Len(users) :
             users[i].email = users[j].email => i = j)
    /\ [][\A r \in Reqs :
             /\ pc[r] = "registerFindUnique" /\ pc'[r] # pc[r]
             /\ AccountsOf(areq[r].email) # {}
             => /\ pc'[r] = "done" /\ res'[r].status = 409
                /\ users' = users /\ verifications' = verifications
                /\ outbox' = outbox]_vars

\* C20 witness: a register for the email of an account has answered 409
C20_Witness ==
    \E r \in Reqs :
       /\ Done(r, "register") /\ res[r].status = 409
       /\ Cardinality(AccountsOf(areq[r].email)) = 1

\* the email as the claim compares it: lower-cased
Folded(email) == toLowerCase(String(email))

\* C21: the uniqueness check of register is case-insensitive: no two
\* accounts ever exist whose emails are equal after lower-casing.  The
\* handler looks the email up and stores it as it was given, so "A@x.io" is
\* registered beside "a@x.io".
C21_CaseInsensitiveUnique ==
    \A i, j \in 1..Len(users) :
       Folded(users[i].email) = Folded(users[j].email) => i = j

\* a register request whose body is complete and fails the validation
InvalidRegister(r) ==
    /\ req[r].kind = "register" /\ InFlight(r)
    /\ areq[r].email # NoEmail /\ areq[r].password # NoPassword
    /\ ~validateEmail(areq[r].email) \/ ~validatePassword(areq[r].password)

\* C22: a register request with an invalid email or a short password is
\* answered 400 without a write to the session store or the relational
\* store, and no account or token is created.  sessionMiddleware runs before
\* the validation and creates the session record of a request that has no
\* live one.
C22_ValidatedBeforeStores ==
    [][\A r \in Reqs :
          InvalidRegister(r) =>
             /\ redis' = redis /\ expiry' = expiry
             /\ users' = users /\ verifications' = verifications
             /\ tokens' = tokens
             /\ pc'[r] = "done" => res'[r].status = 400]_vars

\* request r is the only one of its session: none overlapped with it
OnlyOfItsSession(r) ==
    \A q \in Reqs \ {r} : req[q].sessionId # req[r].sessionId

\* the session attached to a request that found no record is a fresh one
FreshWhenNoRecord(r) ==
    pc[r] = "createSession" /\ pc'[r] # "createSession" =>
       LET stored == redis'[sessionIdToRedisKey(req[r].sessionId)] IN
         /\ stored.cart = EmptyCart /\ stored.userId = NoUser
         /\ Done(r, "getCart")' => res'[r].cart = EmptyCart

\* C23, with the proviso it needs: once POST /auth/logout with cookie c has
\* answered 200, the cookie is cleared and, provided no other request for c
\* was in flight during the logout, no record is stored for c; and a request
\* that presents a cookie without a record is given an empty cart and
\* userId null.
C23_LogoutForgets ==
    /\ [](\A r \in Reqs :
            Done(r, "logout") /\ res[r].status = 200 =>
               /\ res[r].cookie = ClearedCookie
               /\ OnlyOfItsSession(r) =>
                     sessionIdToRedisKey(req[r].sessionId) \notin DOMAIN redis)
    /\ [][\A r \in Reqs : FreshWhenNoRecord(r)]_vars

\* a logout has deleted the record of a session that was issued, and no
\* request of the session overlapped with it
C23_Witness ==
    \E r \in Reqs :
       /\ Done(r, "logout") /\ res[r].status = 200
       /\ res[r].cookie = ClearedCookie
       /\ req[r].sessionId \in issued
       /\ OnlyOfItsSession(r)
       /\ sessionIdToRedisKey(req[r].sessionId) \notin DOMAIN redis

\* C23 as it is stated, without the proviso: after the logout of c nothing
\* of the earlier state is stored for c.  A cart mutation of c that was in
\* flight during the logout writes its copy back after the delete.
C23_LogoutForgetsAlways ==
    \A r \in Reqs :
       Done(r, "logout") /\ res[r].status = 200 =>
          LET key == sessionIdToRedisKey(req[r].sessionId) IN
            key \in DOMAIN redis =>
               redis[key].cart = EmptyCart /\ redis[key].userId = NoUser

\* C24: a session record is created only under an id that the request has
\* generated and issued in a set-cookie, never under the value of the cookie
\* presented.  getOrCreateSession calls createSession with the cookie's
\* value when it finds no record for it.
C24_NeverClientChosenId ==
    [][\A r \in Reqs :
          pc[r] = "createSession" /\ pc'[r] # "createSession" =>
             res'[r].cookie = req[r].sessionId]_vars

\* the routes that mutate the cart and answer with it
CartMutations == {"postCart", "deleteCartPizza", "deleteCart"}

\* the routes whose handler keeps the session as it was read
KeepSession == {"postCart", "deleteCartPizza", "postOrders", "getOrders",
                "getOrder"}

\* an acknowledged cart mutation: the cart it returned is the cart of the
\* record stored under the request's session id, which the record carries;
\* a set-cookie of the response names that id
C25_Acknowledged(r) ==
    req[r].kind \in CartMutations /\ pc[r] = "done" /\ res[r].status = 200 =>
       LET key == sessionIdToRedisKey(req[r].sessionId) IN
         /\ key \in DOMAIN redis
         /\ redis[key].cart = res[r].cart
         /\ redis[key].id = req[r].sessionId
         /\ res[r].cookie \in {NoCookie, req[r].sessionId}

\* the request that finds a record reads the cart that is stored
C25_Read(r) ==
    LET key == sessionIdToRedisKey(req[r].sessionId) IN
    pc[r] = "getExistingSession" /\ pc'[r] # pc[r] /\ key \in DOMAIN redis =>
       /\ req[r].kind = "getCart" =>
             res'[r].status = 200 /\ res'[r].cart = redis[key].cart
       /\ req[r].kind \in KeepSession /\ pc'[r] # "done" =>
             session'[r].cart = redis[key].cart /\ session'[r].id = redis[key].id

\* C25, the session round trip, the requests served one after the other and
\* no record expiring or deleted: the cart returned by an acknowledged cart
\* mutation is the cart stored under the request's session id (the id of
\* the set-cookie when the request created the session), the store keeps it
\* while no request is served, and the next request presenting the id reads
\* exactly the stored cart.
C25_SessionRoundTrip ==
    /\ [](\A r \in Reqs : C25_Acknowledged(r))
    /\ [][(\A r \in Reqs : ~InFlight(r)) => redis' = redis]_vars
    /\ [][\A r \in Reqs : C25_Read(r)]_vars

\* GET /cart presenting a cookie has answered the non-empty cart that the
\* record of its session holds
C25_Witness ==
    \E r \in Reqs :
       /\ Done(r, "getCart") /\ res[r].status = 200
       /\ res[r].cookie = NoCookie
       /\ res[r].cart.items # <<>>
       /\ sessionIdToRedisKey(req[r].sessionId) \in DOMAIN redis
       /\ res[r].cart = StoredCart(req[r].sessionId)
       /\ redis[sessionIdToRedisKey(req[r].sessionId)].id = req[r].sessionId

\* the routes that only read the session
ReadOnlyKinds == {"getCart", "getOrders", "getOrder"}

\* three days, in seconds
ThreeDays == 3 * 24 * 60 * 60

\* a write of the record of request r: its creation, or the write-back of
\* a mutating handler
C26_Write(r) ==
    \/ pc[r] = "createSession" /\ pc'[r] # "createSession"
    \/ Step(r, "redisSet", "respond")

EntriesOf(items, pizzaId) == {i \in 1..Len(items) : items[i].pizzaId = pizzaId}

\* the step of request r, of route `kind`, in which the cart is mutated
Mutates(r, kind) ==
    /\ req[r].kind = kind
    /\ Step(r, "cartFindUnique", "redisSet")

\* the write-back of request r stores the cart as the handler has left it
StoresItsCart(r) ==
    Step(r, "redisSet", "respond") =>
       redis'[sessionIdToRedisKey(req[r].sessionId)].cart = session[r].cart

\* POST /cart {pizzaId, quantity q > 0} on the cart `old`, the result `new`
C27_Added(r) ==
    LET old == session[r].cart
        new == session'[r].cart
        q == req[r].quantity
        at == EntriesOf(old.items, req[r].pizzaId)
    IN  Mutates(r, "postCart") /\ q > 0 =>
          /\ new.total = old.total + catalog[req[r].pizzaId] * q
          /\ Cardinality(EntriesOf(new.items, req[r].pizzaId)) = 1
          /\ IF at = {}
             THEN new.items = Append(old.items, [pizzaId |-> req[r].pizzaId,
                                                 quantity |-> q])
             ELSE /\ Len(new.items) = Len(old.items)
                  /\ \A i \in 1..Len(old.items) :
                        new.items[i] =
                           IF i \in at
                           THEN [pizzaId |-> req[r].pizzaId,
                                 quantity |-> old.items[i].quantity + q]
                           ELSE old.items[i]

C28_SetSemantics ==
    [][\A r \in Reqs :
          LET old == session[r].cart
              new == session'[r].cart
              q == req[r].quantity
              price == catalog[req[r].pizzaId]
          IN  Mutates(r, "postCart") =>
                \A i \in EntriesOf(old.items, req[r].pizzaId) :
                   /\ new.items[i].quantity = q
                   /\ new.total = old.total - price * old.items[i].quantity
                                            + price * q]_vars

\* request r is POST /cart with quantity 0 for a pizza of the catalog that
\* is in the stored cart of its session, about to be handled
ZeroForItem(r) ==
    LET key == sessionIdToRedisKey(req[r].sessionId) IN
      /\ req[r].kind = "postCart" /\ req[r].quantity = 0
      /\ req[r].pizzaId \in DOMAIN catalog
      /\ pc[r] = "getExistingSession"
      /\ key \in DOMAIN redis
      /\ EntriesOf(redis[key].cart.items, req[r].pizzaId) # {}

\* C29: POST /cart with quantity 0 for a pizza that is in the cart is not
\* refused, and when it has succeeded the pizza is no longer in the stored
\* cart.  The handler answers 400 to a quantity of 0.
C29_ZeroRemoves ==
    /\ [][\A r \in Reqs :
             ZeroForItem(r) /\ pc'[r] = "done" => res'[r].status = 200]_vars
    /\ [](\A r \in Reqs :
             Done(r, "postCart") /\ req[r].quantity = 0 /\ res[r].status = 200 =>
                EntriesOf(StoredCart(req[r].sessionId).items, req[r].pizzaId) = {})

\* DELETE /cart/:pizzaId for a pizza that is not in the cart of the session
\* attached to the request: 404, and the handler writes nothing
C30_NotInCart(r) ==
    LET key == sessionIdToRedisKey(req[r].sessionId)
        cart == IF pc[r] = "createSession" THEN EmptyCart ELSE redis[key].cart
    IN  /\ req[r].kind = "deleteCartPizza"
        /\ pc[r] \in {"getExistingSession", "createSession"}
        /\ pc[r] = "getExistingSession" => key \in DOMAIN redis
        /\ pc'[r] # pc[r]
        /\ EntriesOf(cart.items, req[r].pizzaId) = {}
        => /\ pc'[r] = "done" /\ res'[r].status = 404
           /\ redis'[key].cart = cart
           /\ pc[r] = "getExistingSession" => redis' = redis

\* DELETE /cart/:pizzaId for a pizza of the catalog that is in the cart
C30_Removed(r) ==
    LET old == session[r].cart
        new == session'[r].cart
        pizzaId == req[r].pizzaId
    IN  Mutates(r, "deleteCartPizza") =>
          \E i \in EntriesOf(old.items, pizzaId) :
             /\ new.items = SubSeq(old.items, 1, i - 1)
                               \o SubSeq(old.items, i + 1, Len(old.items))
             /\ new.total = old.total - catalog[pizzaId] * old.items[i].quantity

\* C30: DELETE /cart/:pizzaId for a pizza not in the cart answers 404 and
\* writes nothing to the stored session; for a pizza in the cart and in the
\* catalog it deletes exactly that entry, keeps the other entries in their
\* order and subtracts the unit price x the entry's quantity from the
\* total, and the cart so mutated is the one stored.
C30_DeleteItem ==
    [][\A r \in Reqs :
          C30_NotInCart(r) /\ C30_Removed(r) /\ StoresItsCart(r)]_vars

\* DELETE /cart/:pizzaId has removed the second of two entries: the first
\* is what the response and the store hold
C30_Witness ==
    \E r \in Reqs :
       /\ Done(r, "deleteCartPizza") /\ res[r].status = 200
       /\ Len(res[r].cart.items) = 1
       /\ res[r].cart.items[1].pizzaId < req[r].pizzaId
       /\ res[r].cart = StoredCart(req[r].sessionId)

\* DELETE /cart/:pizzaId is at its catalog lookup, for an entry of the cart
\* whose pizza the catalog no longer has
GonePizza(r) ==
    /\ req[r].kind = "deleteCartPizza"
    /\ pc[r] = "cartFindUnique"
    /\ req[r].pizzaId \notin DOMAIN catalog

\* C31: DELETE /cart/:pizzaId for an entry of the cart whose pizza is no
\* longer in the catalog answers 404 and writes nothing: the stored cart
\* keeps its items, the entry among them, and its total.
C31_GonePizzaStays ==
    [][\A r \in Reqs :
          GonePizza(r) /\ pc'[r] # pc[r] =>
             /\ pc'[r] = "done" /\ res'[r].status = 404
             /\ redis' = redis
             /\ EntriesOf(StoredCart(req[r].sessionId).items,
                          req[r].pizzaId) # {}]_vars

\* the 404 has been answered for a pizza deleted from the catalog, and the
\* stored cart still holds its entry
C31_Witness ==
    \E r \in Reqs :
       /\ Done(r, "deleteCartPizza") /\ res[r].status = 404
       /\ req[r].pizzaId \notin DOMAIN catalog
       /\ sessionIdToRedisKey(req[r].sessionId) \in DOMAIN redis
       /\ EntriesOf(StoredCart(req[r].sessionId).items, req[r].pizzaId) # {}

\* DELETE /cart empties the copy of the session it was given and keeps its
\* id and userId
C32_Cleared(r) ==
    LET key == sessionIdToRedisKey(req[r].sessionId) IN
    /\ req[r].kind = "deleteCart"
    /\ pc[r] \in {"getExistingSession", "createSession"}
    /\ pc'[r] # pc[r]
    /\ pc[r] = "getExistingSession" => key \in DOMAIN redis
    => /\ pc'[r] = "redisSet"
       /\ session'[r].cart = [items |-> <<>>, total |-> 0]
       /\ session'[r].id = req[r].sessionId
       /\ pc[r] = "getExistingSession" =>
             /\ session'[r].id = redis[key].id
             /\ session'[r].userId = redis[key].userId

\* the write of DELETE /cart stores the emptied cart with the id and userId
\* the record had; a record whose cart was empty is stored as it was
C32_Written(r) ==
    LET key == sessionIdToRedisKey(req[r].sessionId) IN
    req[r].kind = "deleteCart" /\ Step(r, "redisSet", "respond") =>
       /\ redis'[key].cart = [items |-> <<>>, total |-> 0]
       /\ redis'[key].id = req[r].sessionId
       /\ redis'[key].userId = redis[key].userId
       /\ redis[key].cart = [items |-> <<>>, total |-> 0] =>
             redis'[key] = redis[key]

\* C32: DELETE /cart always succeeds and leaves the stored cart equal to
\* {items: [], total: 0} whatever it held, an empty cart included, so that
\* a second clear changes nothing; the id and userId of the session are
\* kept.
C32_ClearIdempotent ==
    /\ [][\A r \in Reqs : C32_Cleared(r) /\ C32_Written(r)]_vars
    /\ [](\A r \in Reqs :
            Done(r, "deleteCart") =>
               /\ res[r].status = 200
               /\ res[r].cart = [items |-> <<>>, total |-> 0]
               /\ StoredCart(req[r].sessionId) = [items |-> <<>>, total |-> 0])

\* DELETE /cart presenting the cookie of an earlier request has answered
\* 200, and the stored cart is empty
C32_Witness ==
    \E r \in Reqs :
       /\ Done(r, "deleteCart") /\ res[r].status = 200
       /\ res[r].cookie = NoCookie
       /\ started >= 2
       /\ StoredCart(req[r].sessionId) = [items |-> <<>>, total |-> 0]

\* C33: in every stored cart each pizzaId occurs at most once in items,
\* whatever the interleaving of the cart and order requests of the session.
C33_UniquePizzaIds ==
    \A key \in DOMAIN redis :
       \A i, j \in 1..Len(redis[key].cart.items) :
          redis[key].cart.items[i].pizzaId = redis[key].cart.items[j].pizzaId
             => i = j

\* two POST /cart for the same pizza and the same session have both been
\* answered 200, and the stored cart holds one entry for the pizza
C33_Witness ==
    /\ \A r \in Reqs : Done(r, "postCart") /\ res[r].status = 200
    /\ req[1].sessionId = req[2].sessionId /\ req[1].pizzaId = req[2].pizzaId
    /\ Cardinality(EntriesOf(StoredCart(req[1].sessionId).items,
                             req[1].pizzaId)) = 1

\* the pizzas of the catalog that carry every tag of the list
Matching(tags) == {p \in DOMAIN catalog : keysOf(tags) \subseteq pizzaTags[p]}

\* the step in which GET /pizzas answers 200
Listed == listing.stage # "done" /\ listing'.stage = "done" /\ listing'.status = 200

\* C34: for a request with limit=L (1 <= L <= 100) and offset=O the
\* response of GET /pizzas reports limit L and offset O, and its results are
\* the at most L matching pizzas after the first O.  The handler reads the
\* offset from req.query.page and never reads req.query.offset.
C34_Pagination ==
    [][Listed /\ listing.limit \in 1..100 =>
          /\ listing'.resLimit = listing.limit
          /\ listing'.resOffset = listing.offset
          /\ listing'.results =
                skipTake(sortedIds(Matching(listing.tags)), listing.offset,
                         listing.limit)]_vars

\* C35: the total of a GET /pizzas response is the number of all the pizzas
\* that carry every requested tag, whatever the limit and the offset.  With
\* several tags the handler counts the rows of the page it has selected.
C35_TotalOfMatching ==
    [][Listed => listing'.total = Cardinality(Matching(listing.tags))]_vars

\* C36: when GET /auth/verify has answered 200 for a token, both writes
\* have taken effect: the account of the token is verified and the row of
\* the token is deleted.  The handler answers without awaiting the two
\* writes, so the 200 is out while they are still to be executed, and a
\* request that starts then reads the account as unverified and the token
\* as present.
C36_VerifiedWhenAnswered ==
    \A r \in Reqs :
       Done(r, "verify") /\ res[r].status = 200 =>
          \A i \in 1..Len(verifications) :
             verifications[i].token = areq[r].token =>
                /\ verifications[i].deleted
                /\ users[verifications[i].userId].verified

\* C37: under any interleaving of resend-verification requests, at most one
\* verification email is sent to an address per window of 60 seconds.
\* isEmailRateLimited reads the marker and sets it in the callback of the
\* read: two requests that both read before either callback has run both
\* find no marker, and both send.
C37_OneEmailPerWindow ==
    \A i, j \in 1..Len(outbox) :
       i < j /\ outbox[i].to = outbox[j].to /\ outbox[i].to # NoEmail =>
          outbox[j].at >= outbox[i].at + 60

\* the order a request of POST /orders of session `id` has created
Committed(r, id) ==
    /\ req[r].kind = "postOrders"
    /\ res[r].order # NoOrder
    /\ res[r].order.sessionId = id

\* C38: two POST /orders requests of one session that run at the same time
\* never both commit the cart: of two requests whose handling overlapped, at
\* most one has created an order for the session.  (An arrival wipes what
\* the finished requests left, so two requests that both show an order
\* overlapped.)
C38_OneCommitPerCart ==
    \A r, q \in Reqs, id \in issued :
       r # q => ~(Committed(r, id) /\ Committed(q, id))

\* pizza ids of the lines of an order as answered
OrderedPizzas(order) == {order.items[i].pizzaId : i \in 1..Len(order.items)}

\* pizza ids of the items of the cart stored for session `id`
StoredPizzas(id) ==
    IF sessionIdToRedisKey(id) \in DOMAIN redis
    THEN LET items == redis[sessionIdToRedisKey(id)].cart.items
         IN  {items[i].pizzaId : i \in 1..Len(items)}
    ELSE {}

\* C39: when a POST /cart and a POST /orders of one session overlapped and
\* both are done, the first answered 200 and the second 201, the pizza
\* added is in the stored cart or in the created order, and no pizza of the
\* created order is still in the stored cart.  The pizza added is left out
\* of the second half: added after the commit, it is in both by right.
C39_NothingLostNorTwice ==
    \A r, q \in Reqs :
       /\ Done(r, "postCart") /\ res[r].status = 200
       /\ Done(q, "postOrders") /\ res[q].status = 201
       /\ req[r].sessionId = req[q].sessionId
       /\ req[r].sessionId # NoCookie
       => LET id == req[r].sessionId
              ordered == OrderedPizzas(res[q].order)
          IN  /\ req[r].pizzaId \in StoredPizzas(id) \cup ordered
              /\ (StoredPizzas(id) \cap ordered) \ {req[r].pizzaId} = {}

\* the first half of C39 alone: the acknowledged addition is not lost
C39_NothingLost ==
    \A r, q \in Reqs :
       /\ Done(r, "postCart") /\ res[r].status = 200
       /\ Done(q, "postOrders") /\ res[q].status = 201
       /\ req[r].sessionId = req[q].sessionId
       /\ req[r].sessionId # NoCookie
       => req[r].pizzaId \in StoredPizzas(req[r].sessionId)
                                \cup OrderedPizzas(res[q].order)

\* C40: a stored cart whose items list is empty has total 0.
C40_EmptyMeansZero ==
    \A key \in DOMAIN redis :
       redis[key].cart.items = <<>> => redis[key].cart.total = 0
====
